---- MODULE Spec2Model ----
(***************************************************************************)
(* A model of the Hugging Face Space keep-alive tool (src/src/index.ts):   *)
(* startup (validateConfig, initCookie), the per-host cookie jar           *)
(* (cookieStorage), target resolution through the Space page               *)
(* (getIframeUrl, extractIframeUrl), the retry loop of keepAlive, the      *)
(* Uptime Kuma push (pushToUptimeKuma) and the scheduler of main.          *)
(*                                                                         *)
(* Every await of the program is a step boundary: an action is the code    *)
(* that runs from the resumption of one await to the next await.  The      *)
(* network is the environment: it answers a request with headers (a        *)
(* status code and Set-Cookie lines) or an error, and then delivers a body *)
(* or an error.                                                            *)
(***************************************************************************)
EXTENDS Integers, Sequences, FiniteSets, TLC

VARIABLES
    CONFIG,          \* the configuration record, fixed at construction
    cookieStorage,   \* host -> (cookie name -> value)
    cyc,             \* one record per keepAlive invocation
    mainPc,          \* position of main: "start", "first", "armed", "exited"
    lastDirective,   \* history: host -> (name -> value of the last valid directive)
    input            \* the arguments of a function applied on its own (CookieSpec)

vars == <<CONFIG, cookieStorage, cyc, mainPc, lastDirective, input>>

----------------------------------------------------------------------------
\* Bounds of the model.

MaxRetriesBound == 3     \* the largest CONFIG.maxRetries explored
MaxCycles == 2           \* keepAlive invocations explored (1 at startup, the rest by timer)
MaxBodyLen == 2          \* the longest response body, in tokens
MaxBatch == 2            \* the most Set-Cookie lines on one response

Cycles == 1..MaxCycles

\* All sequences over S of length at most n.
BSeq(S, n) == UNION {[1..k -> S] : k \in 0..n}

----------------------------------------------------------------------------
\* URLs.  A URL string is a record; scheme "" means `new URL` throws on it.

Url(s, h, p) == [scheme |-> s, host |-> h, path |-> p]

NullUrl == Url("", "", "null")          \* null / undefined
EmptyUrl == Url("", "", "")             \* the empty string
RelativeUrl == Url("", "", "/embed")    \* a non-empty string that is no absolute URL

SpacePage == Url("https", "huggingface.co", "/spaces/u/s")
DirectUrl == Url("https", "u-s.hf.space", "/")
SignedUrl == Url("https", "u-s.hf.space", "/?__sign=tok")
KumaUrl == Url("https", "kuma.example", "/api/push/k")

\* JavaScript truthiness of a string | null.
Truthy(u) == u \notin {NullUrl, EmptyUrl}

\* Whether `new URL(u)` succeeds.
IsValidUrl(u) == u.scheme # ""

\* Variant: the key is the scheme and the host name.
extractSchemeAndHost(url) ==
    IF IsValidUrl(url) THEN url.scheme \o "://" \o url.host ELSE ""

\* new URL(url).hostname: the host field is the host name, without the port.
extractDomain(url) == IF IsValidUrl(url) THEN url.host ELSE ""

----------------------------------------------------------------------------
\* Cookie values and the cookie library's default codecs.  The wire form of
\* a value is percent-encoded; the jar holds decoded values.  decode leaves a
\* value without "%" as it is; encodeURIComponent escapes the space, "/" and
\* "%" itself.

decode(raw) ==
    IF raw = "a%20b" THEN "a b"
    ELSE IF raw = "a%2Fb" THEN "a/b"
    ELSE IF raw = "a%2520b" THEN "a%20b"
    ELSE raw

\* Variant: values are written to the header as they are.
encodeNothing(v) == v

encodeURIComponent(v) ==
    IF v = "a b" THEN "a%20b"
    ELSE IF v = "a/b" THEN "a%2Fb"
    ELSE IF v = "a%20b" THEN "a%2520b"
    ELSE v

\* A cookie pair or a Set-Cookie line is a sequence of tokens, "=" among them.
Pair(n, raw) == <<n, "=", raw>>

RECURSIVE eqIndex(_, _)
eqIndex(str, i) ==
    IF i > Len(str) THEN 0
    ELSE IF str[i] = "=" THEN i
    ELSE eqIndex(str, i + 1)

\* The text of a token sequence that holds at most one token ("" when empty).
valueSlice(str, from, to) == IF from > to THEN "" ELSE str[from]

\* cookie.parseSetCookie: the name before the first "=", the decoded value
\* after it; no "=" gives the empty name.
parseSetCookie(str) ==
    LET eq == eqIndex(str, 1)
    IN IF eq = 0
       THEN [name |-> "", value |-> decode(valueSlice(str, 1, Len(str)))]
       ELSE [name |-> valueSlice(str, 1, eq - 1),
             value |-> decode(valueSlice(str, eq + 1, Len(str)))]

EmptyEntry == [n \in {} |-> ""]

\* cookie.parseCookie over the ";"-separated pairs of a Cookie header: a pair
\* without "=" is skipped, the first occurrence of a name wins.
RECURSIVE parseCookie(_)
parseCookie(str) ==
    IF str = <<>> THEN EmptyEntry
    ELSE LET eq == eqIndex(Head(str), 1)
             rest == parseCookie(Tail(str))
         IN IF eq = 0 THEN rest
            ELSE (valueSlice(Head(str), 1, eq - 1)
                    :> decode(valueSlice(Head(str), eq + 1, Len(Head(str)))))
                 @@ rest

\* A configured cookie that is no string (a JSON number in the configuration
\* file): truthy, and cookie.parseCookie throws a TypeError on it.
NumberCookie == << <<"#number">> >>

parseCookieThrows(str) == str = NumberCookie

\* cookie.stringifyCookie: the name=encoded-value pairs of an entry (the
\* header string, as the set of its pairs).
stringifyCookie(entry) ==
    {Pair(n, encodeURIComponent(entry[n])) : n \in DOMAIN entry}

\* Variant: the Cookie header is made of the seed cookies, not of the jar.
serializeSeed(storage, url) ==
    LET domain == extractDomain(url)
    IN IF domain = "" \/ domain \notin DOMAIN storage
       THEN {}
       ELSE stringifyCookie(parseCookie(CONFIG.cookie))

serializeCookie(storage, url) ==
    LET domain == extractDomain(url)
    IN IF domain = "" \/ domain \notin DOMAIN storage
       THEN {}
       ELSE stringifyCookie(storage[domain])

\* Variant: a cookie already in the entry keeps its value.
RECURSIVE applySetCookiesKeepOld(_, _)
applySetCookiesKeepOld(entry, setCookieHeaders) ==
    IF setCookieHeaders = <<>> THEN entry
    ELSE LET parsed == parseSetCookie(Head(setCookieHeaders))
         IN applySetCookiesKeepOld(
                IF parsed.name # "" /\ parsed.value # ""
                THEN entry @@ (parsed.name :> parsed.value)
                ELSE entry,
                Tail(setCookieHeaders))

\* Variant: the loop ends at the first line that gives no cookie.
RECURSIVE applySetCookiesUntilBad(_, _)
applySetCookiesUntilBad(entry, setCookieHeaders) ==
    IF setCookieHeaders = <<>> THEN entry
    ELSE LET parsed == parseSetCookie(Head(setCookieHeaders))
         IN IF parsed.name # "" /\ parsed.value # ""
            THEN applySetCookiesUntilBad((parsed.name :> parsed.value) @@ entry,
                                         Tail(setCookieHeaders))
            ELSE entry

\* Variant: a directive with a name and an empty value deletes the cookie.
RECURSIVE applySetCookiesDeleting(_, _)
applySetCookiesDeleting(entry, setCookieHeaders) ==
    IF setCookieHeaders = <<>> THEN entry
    ELSE LET parsed == parseSetCookie(Head(setCookieHeaders))
         IN applySetCookiesDeleting(
                IF parsed.name # "" /\ parsed.value # ""
                THEN (parsed.name :> parsed.value) @@ entry
                ELSE IF parsed.name # ""
                THEN [n \in DOMAIN entry \ {parsed.name} |-> entry[n]]
                ELSE entry,
                Tail(setCookieHeaders))

\* The loop of updateCookies over the Set-Cookie lines of one response.
RECURSIVE applySetCookies(_, _)
applySetCookies(entry, setCookieHeaders) ==
    IF setCookieHeaders = <<>> THEN entry
    ELSE LET parsed == parseSetCookie(Head(setCookieHeaders))
         IN applySetCookies(
                IF parsed.name # "" /\ parsed.value # ""
                THEN (parsed.name :> parsed.value) @@ entry
                ELSE entry,
                Tail(setCookieHeaders))

\* Variant: the directives are applied to every entry of the jar.
updateCookiesEverywhere(storage, url, setCookieHeaders) ==
    LET domain == extractDomain(url)
    IN IF domain = "" THEN storage
       ELSE [d \in DOMAIN storage \cup {domain} |->
                applySetCookies(IF d \in DOMAIN storage THEN storage[d] ELSE EmptyEntry,
                                setCookieHeaders)]

\* Variant: the entry of a new host starts as a copy of the seed cookies.
updateCookiesSeeded(storage, url, setCookieHeaders) ==
    LET domain == extractDomain(url)
    IN IF domain = "" THEN storage
       ELSE LET old == IF domain \in DOMAIN storage THEN storage[domain]
                       ELSE parseCookie(CONFIG.cookie)
            IN (domain :> applySetCookies(old, setCookieHeaders)) @@ storage

updateCookies(storage, url, setCookieHeaders) ==
    LET domain == extractDomain(url)
    IN IF domain = "" THEN storage
       ELSE LET old == IF domain \in DOMAIN storage THEN storage[domain]
                       ELSE EmptyEntry
            IN (domain :> applySetCookies(old, setCookieHeaders)) @@ storage

\* Variant: the step ends with the first line of the batch applied, the
\* other lines still to come.
applyFirstLine(storage, url, setCookieHeaders) ==
    IF Len(setCookieHeaders) > 0
    THEN updateCookies(storage, url, << Head(setCookieHeaders) >>)
    ELSE storage

\* The response.headers["set-cookie"] handling of getIframeUrl and keepAlive:
\* an absent header (the empty sequence here) leaves the jar alone.
applyResponseCookies(storage, url, setCookieHeaders) ==
    IF Len(setCookieHeaders) > 0
    THEN updateCookies(storage, url, setCookieHeaders)
    ELSE storage

----------------------------------------------------------------------------
\* Response bodies.  A body is a sequence of tokens: characters of text and
\* HTML elements.

Text(ch) == [tag |-> "#text", class |-> "", hasSrc |-> FALSE, src |-> NullUrl, ch |-> ch]

Element(tag, class, hasSrc, src) ==
    [tag |-> tag, class |-> class, hasSrc |-> hasSrc, src |-> src, ch |-> ""]

\* The two literal failure markers.
FAILURE_MARKERS == << <<Text("a"), Text("b")>>, <<Text("c")>> >>

\* String.prototype.includes: the marker occurs as a contiguous run.
Includes(body, marker) ==
    \E i \in 0..(Len(body) - Len(marker)) :
        \A j \in 1..Len(marker) : body[i + j] = marker[j]

\* Variant: only the first marker is looked for.
containsFirstMarker(responseBody) == Includes(responseBody, FAILURE_MARKERS[1])

containsFailureMarker(responseBody) ==
    \E k \in 1..Len(FAILURE_MARKERS) : Includes(responseBody, FAILURE_MARKERS[k])

IsSpaceIframe(e) == e.tag = "iframe" /\ e.class = "space-iframe"

\* $("iframe.space-iframe").attr("src"): the src of the first matched element.
extractIframeUrl(html) ==
    LET iframe == SelectSeq(html, IsSpaceIframe)
    IN IF Len(iframe) = 0 THEN NullUrl
       ELSE LET src == IF iframe[1].hasSrc THEN iframe[1].src ELSE NullUrl
            IN IF ~Truthy(src) THEN NullUrl ELSE src

----------------------------------------------------------------------------
\* What the environment can send.

StatusCodes == {200, 404}

\* HeadersTimeoutError / BodyTimeoutError, UND_ERR_CONNECT, any other Error,
\* and a thrown value that is no Error.
TransportErrors == {"timeout", "connect", "other", "nonError"}

ContentTokens == {Text("a"), Text("b"), Text("c")}

WrapperTokens ==
    { Element("iframe", "space-iframe", TRUE, SignedUrl),
      Element("iframe", "space-iframe", TRUE, RelativeUrl),
      Element("iframe", "space-iframe", TRUE, EmptyUrl),
      Element("iframe", "space-iframe", FALSE, NullUrl),
      Text("c") }

ContentBodies == BSeq(ContentTokens, MaxBodyLen)

WrapperBodies == BSeq(WrapperTokens, MaxBodyLen)

\* Set-Cookie lines: a refreshed session cookie (a plain value, a
\* percent-encoded one, one with a "/" the server left unescaped), a deletion
\* (empty value) and a line without a name.
SetCookieLines ==
    { Pair("spaces-jwt", "v1"), Pair("spaces-jwt", "a%20b"), Pair("spaces-jwt", "a/b"),
      <<"spaces-jwt", "=">>, <<"v1">> }

SetCookieBatches == BSeq(SetCookieLines, MaxBatch)

\* The bodies the monitor answers with: {"ok":true}, {"ok":false}, not JSON.
KumaBodies == {"ok", "notOk", "notJson"}

----------------------------------------------------------------------------
\* Configurations.

NoKuma == [configured |-> FALSE, pushUrl |-> NullUrl, enabled |-> FALSE]

Kuma(u, en) == [configured |-> TRUE, pushUrl |-> u, enabled |-> en]

SeedCookie == << Pair("token", "v0") >>

\* Other seeds: two cookies, one of them percent-encoded; a string without
\* any name=value pair.
TwoCookies == << Pair("token", "v0"), Pair("sid", "a%20b") >>

GarbageCookie == << <<"garbage">> >>

\* The poll interval, in milliseconds.  fileInterval is fileConfig.interval
\* (0: no configuration file), envInterval is env.INTERVAL, set or not, read
\* by parseInt.
DefaultInterval == 30000

configuredInterval(fileInterval, envInterval) ==
    IF fileInterval # 0 THEN fileInterval
    ELSE IF envInterval.set THEN envInterval.value
    ELSE DefaultInterval

FileIntervals == {0, 5000, DefaultInterval}

EnvIntervals ==
    { [set |-> FALSE, value |-> 0], [set |-> TRUE, value |-> 0],
      [set |-> TRUE, value |-> 5000], [set |-> TRUE, value |-> 10000] }

\* The delay setInterval runs with: a delay below 1 or above 2^31 - 1 is 1.
setIntervalDelay(ms) == IF ms < 1 \/ ms > 2147483647 THEN 1 ELSE ms

Configs ==
    [ spaceUrl : {EmptyUrl, SpacePage, RelativeUrl},
      targetUrl : {EmptyUrl, DirectUrl, RelativeUrl},
      cookie : {<<>>, SeedCookie},
      interval : {DefaultInterval},
      expectedStatusCodes : {{200}, {200, 404}},
      maxRetries : 0..MaxRetriesBound,
      uptimeKuma : {NoKuma, Kuma(KumaUrl, TRUE), Kuma(KumaUrl, FALSE),
                    Kuma(RelativeUrl, TRUE)} ]

\* Variant: the format of the URLs is not looked at.
validateConfigNoUrlCheck(cfg) ==
    /\ Truthy(cfg.spaceUrl) \/ Truthy(cfg.targetUrl)
    /\ cfg.cookie # <<>>

\* validateConfig: TRUE when it returns, FALSE when it calls process.exit(1).
validateConfig(cfg) ==
    /\ Truthy(cfg.spaceUrl) \/ Truthy(cfg.targetUrl)
    /\ cfg.cookie # <<>>
    /\ Truthy(cfg.spaceUrl) => IsValidUrl(cfg.spaceUrl)
    /\ Truthy(cfg.targetUrl) => IsValidUrl(cfg.targetUrl)

\* Variant: the seed goes to the host of the Space page when one is configured.
initCookieOneHost(cfg) ==
    LET urls == IF Truthy(cfg.spaceUrl) THEN {cfg.spaceUrl} ELSE {cfg.targetUrl}
        uniqueDomains == {extractDomain(u) : u \in urls} \ {""}
        cookieObj == parseCookie(cfg.cookie)
    IN [domain \in uniqueDomains |-> cookieObj]

\* initCookie: the seed cookies under the host of every configured URL.
initCookie(cfg) ==
    LET urls == {u \in {cfg.spaceUrl, cfg.targetUrl} : Truthy(u)}
        uniqueDomains == {extractDomain(u) : u \in urls} \ {""}
        cookieObj == parseCookie(cfg.cookie)
    IN [domain \in uniqueDomains |-> cookieObj]

\* initCookie catches what parseCookie throws and calls process.exit(1).
initCookieExits(cfg) == parseCookieThrows(cfg.cookie)

----------------------------------------------------------------------------
\* One keepAlive invocation.

NoReq == [kind |-> "none", url |-> NullUrl, cookie |-> {}]

NoResp == [status |-> 0, fate |-> "none", body |-> <<>>]

\* Date.now() is read at two places of an attempt.  A reading is the place
\* and the attempt it is taken in; a duration is the pair of readings it is
\* the difference of.
Now(attempt, place) == [attempt |-> attempt, at |-> place]

NoTime == Now(0, "none")

Elapsed(from, to) == [from |-> from, to |-> to]

NoPing == Elapsed(NoTime, NoTime)      \* the ping argument left out

Msg(kind, code) == [kind |-> kind, code |-> code]

IdleCycle ==
    [ pc |-> "idle",            \* position: the await the invocation is suspended at
      attempt |-> 0,            \* the loop variable
      startTime |-> NoTime,
      responseTime |-> NoPing,
      targetUrl |-> NullUrl,
      req |-> NoReq,            \* the request in flight
      resp |-> NoResp,          \* the response in flight
      outcome |-> "none",       \* how the latest attempt ended
      status |-> 0,             \* status code of the latest classified response
      errKind |-> "none",       \* the latest caught error
      pushSite |-> "none",      \* where the push was called: "try" or "catch"
      pushFate |-> "none",      \* how the push went
      pushes |-> <<>>,          \* history: the calls of pushToUptimeKuma
      attempts |-> 0,           \* history: loop bodies entered
      sleeps |-> 0,             \* history: inter-retry delays started
      wrapFetches |-> 0,        \* history: Space page requests issued
      contentIssued |-> FALSE,  \* history: this attempt issued its content request
      result |-> "none" ]       \* history: "Succeeded", "Exhausted", "NoTarget"

\* Variant: a failed push is rethrown to the caller.
pushRethrows(fate) == fate \notin {"noop", "ok"}

\* The catch of pushToUptimeKuma swallows whatever went wrong.
pushToUptimeKumaThrows(fate) == FALSE

\* Variant: the enabled flag is not looked at.
pushIgnoringFlag(uptimeKuma, r, status, msg, ping, site) ==
    LET r1 == [r EXCEPT !.pushes = Append(@, [status |-> status, msg |-> msg, ping |-> ping]),
                        !.pushSite = site, !.req = NoReq, !.resp = NoResp]
    IN IF ~uptimeKuma.configured
       THEN [r1 EXCEPT !.pc = "pushRet", !.pushFate = "noop"]
       ELSE IF ~IsValidUrl(uptimeKuma.pushUrl)
       THEN [r1 EXCEPT !.pc = "pushRet", !.pushFate = "other"]
       ELSE [r1 EXCEPT !.pc = "pushReq", !.pushFate = "pending",
                       !.req = [kind |-> "push", url |-> uptimeKuma.pushUrl,
                                cookie |-> {}]]

\* pushToUptimeKuma up to its request, CONFIG.uptimeKuma being uptimeKuma.
pushToUptimeKuma(uptimeKuma, r, status, msg, ping, site) ==
    LET r1 == [r EXCEPT !.pushes = Append(@, [status |-> status, msg |-> msg, ping |-> ping]),
                        !.pushSite = site, !.req = NoReq, !.resp = NoResp]
    IN IF ~uptimeKuma.configured \/ ~uptimeKuma.enabled
       THEN [r1 EXCEPT !.pc = "pushRet", !.pushFate = "noop"]
       ELSE IF ~IsValidUrl(uptimeKuma.pushUrl)
       THEN [r1 EXCEPT !.pc = "pushRet", !.pushFate = "other"]
       ELSE [r1 EXCEPT !.pc = "pushReq", !.pushFate = "pending",
                       !.req = [kind |-> "push", url |-> uptimeKuma.pushUrl,
                                cookie |-> {}]]

CallPush(r, status, msg, ping, site) ==
    pushToUptimeKuma(CONFIG.uptimeKuma, r, status, msg, ping, site)

\* Variant: the last retry is given up one attempt early.
HandleFailureEarly(r, msg, ping, site) ==
    IF r.attempt + 1 < CONFIG.maxRetries
    THEN [r EXCEPT !.pc = "sleep", !.sleeps = @ + 1, !.req = NoReq, !.resp = NoResp]
    ELSE CallPush([r EXCEPT !.result = "Exhausted"], "down", msg, ping, site)

\* The tail shared by every failed attempt: sleep and continue, or push "down".
HandleFailure(r, msg, ping, site) ==
    IF r.attempt < CONFIG.maxRetries
    THEN [r EXCEPT !.pc = "sleep", !.sleeps = @ + 1, !.req = NoReq, !.resp = NoResp]
    ELSE CallPush([r EXCEPT !.result = "Exhausted"], "down", msg, ping, site)

\* Variant: a thrown value that is no Error is thrown on.
CatchBlockRethrows(r, err) ==
    IF err = "nonError"
    THEN [r EXCEPT !.pc = "rejected", !.outcome = "TransportError", !.errKind = err,
                   !.req = NoReq, !.resp = NoResp]
    ELSE HandleFailure([r EXCEPT !.outcome = "TransportError", !.errKind = err],
                       Msg("unknownWithMessage", 0), NoPing, "catch")

\* Variant: every caught error is reported as the same unknown error.
CatchBlockOneMessage(r, err) ==
    HandleFailure([r EXCEPT !.outcome = "TransportError", !.errKind = err],
                  Msg("unknown", 0), NoPing, "catch")

\* The catch block of keepAlive.
CatchBlock(r, err) ==
    LET msg == CASE err = "timeout" -> Msg("timeout", 0)
                 [] err = "connect" -> Msg("connect", 0)
                 [] err = "other" -> Msg("unknownWithMessage", 0)
                 [] OTHER -> Msg("unknown", 0)
    IN HandleFailure([r EXCEPT !.outcome = "TransportError", !.errKind = err],
                     msg, NoPing, "catch")

\* The await of pushToUptimeKuma settles; the caller returns.
PushSettle(r, fate) ==
    LET r1 == [r EXCEPT !.pushFate = fate, !.req = NoReq, !.resp = NoResp]
    IN IF ~pushToUptimeKumaThrows(fate) THEN [r1 EXCEPT !.pc = "done"]
       ELSE IF r.pushSite = "try" THEN CatchBlock(r1, "other")
       ELSE [r1 EXCEPT !.pc = "rejected"]

\* Variant: 200 alone is accepted.
isStatus200(statusCode) == statusCode = 200

\* CONFIG.expectedStatusCodes.includes(response.statusCode)
isExpectedStatusCode(statusCode) == statusCode \in CONFIG.expectedStatusCodes

\* Classification of the content response, body read.
Classify(r, responseBody) ==
    LET statusCode == r.resp.status
        hasFailureMarker == containsFailureMarker(responseBody)
        r1 == [r EXCEPT !.status = statusCode]
    IN IF hasFailureMarker
       THEN HandleFailure([r1 EXCEPT !.outcome = "ContentFailure"],
                          Msg("marker", statusCode), NoPing, "try")
       ELSE IF ~isExpectedStatusCode(statusCode)
       THEN HandleFailure([r1 EXCEPT !.outcome = "UnexpectedStatus"],
                          Msg("status", statusCode), r.responseTime, "try")
       ELSE CallPush([r1 EXCEPT !.outcome = "Success", !.result = "Succeeded"],
                     "up", Msg("OK", 0), r.responseTime, "try")

\* The content request: request() rejects a string that is no absolute URL.
\* Variant: the content request is issued and not awaited.
IssueContentDetached(r, storage) ==
    [r EXCEPT !.pc = "done",
              !.req = [kind |-> "content", url |-> r.targetUrl,
                       cookie |-> serializeCookie(storage, r.targetUrl)],
              !.resp = NoResp, !.contentIssued = TRUE]

\* Variant: a target whose host has no jar entry is an error of the attempt.
IssueContentNeedsEntry(r, storage) ==
    IF ~IsValidUrl(r.targetUrl) \/ extractDomain(r.targetUrl) \notin DOMAIN storage
    THEN CatchBlock(r, "other")
    ELSE [r EXCEPT !.pc = "contReq",
                   !.req = [kind |-> "content", url |-> r.targetUrl,
                            cookie |-> serializeCookie(storage, r.targetUrl)],
                   !.resp = NoResp,
                   !.contentIssued = TRUE]

IssueContent(r, storage) ==
    IF ~IsValidUrl(r.targetUrl) THEN CatchBlock(r, "other")
    ELSE [r EXCEPT !.pc = "contReq",
                   !.req = [kind |-> "content", url |-> r.targetUrl,
                            cookie |-> serializeCookie(storage, r.targetUrl)],
                   !.resp = NoResp,
                   !.contentIssued = TRUE]

\* Variant: TARGET_URL is preferred to the iframe URL.
pickTargetDirectFirst(iframeUrl) ==
    IF Truthy(CONFIG.targetUrl) THEN CONFIG.targetUrl
    ELSE IF Truthy(iframeUrl) THEN iframeUrl
    ELSE NullUrl

\* Variant: no fallback to TARGET_URL.
pickTargetNoFallback(iframeUrl) ==
    IF Truthy(iframeUrl) THEN iframeUrl ELSE NullUrl

\* The target of the attempt, getIframeUrl having returned iframeUrl: the
\* iframe URL first, TARGET_URL as the fallback, else none.
pickTarget(iframeUrl) ==
    IF Truthy(iframeUrl) THEN iframeUrl
    ELSE IF Truthy(CONFIG.targetUrl) THEN CONFIG.targetUrl
    ELSE NullUrl

\* Variant: no target returns without a push.
SkipKeepAliveSilently(r) ==
    [r EXCEPT !.pc = "done", !.outcome = "NoTarget", !.result = "NoTarget",
              !.req = NoReq, !.resp = NoResp]

\* Variant: no target is retried like a failed request.
SkipKeepAliveRetrying(r) ==
    HandleFailure([r EXCEPT !.outcome = "NoTarget", !.result = "NoTarget"],
                  Msg("noTarget", 0), NoPing, "try")

\* No target: push "down" and return from keepAlive.
SkipKeepAlive(r) ==
    CallPush([r EXCEPT !.outcome = "NoTarget", !.result = "NoTarget"],
             "down", Msg("noTarget", 0), NoPing, "try")

\* keepAlive between the return of getIframeUrl and the content request.
ChooseTarget(r, iframeUrl, storage) ==
    LET targetUrl == pickTarget(iframeUrl)
    IN IF ~Truthy(targetUrl) THEN SkipKeepAlive(r)
       ELSE IssueContent([r EXCEPT !.targetUrl = targetUrl], storage)

\* Variant: startTime is taken once, before the loop.
takeStartTimeOnce(r, a) == IF a = 1 THEN Now(a, "attemptStart") ELSE r.startTime

\* const startTime = Date.now(), at the top of the loop body.
takeStartTime(r, a) == Now(a, "attemptStart")

\* Variant: a target resolved by an earlier attempt of the cycle is used again.
BeginAttemptCached(r, a, storage) ==
    IF ~(a <= CONFIG.maxRetries)
    THEN [r EXCEPT !.pc = "done", !.attempt = a, !.req = NoReq, !.resp = NoResp]
    ELSE LET r1 == [r EXCEPT !.attempt = a, !.attempts = @ + 1,
                             !.startTime = takeStartTime(r, a),
                             !.responseTime = NoPing,
                             !.outcome = "none", !.status = 0, !.errKind = "none",
                             !.contentIssued = FALSE]
         IN IF Truthy(r.targetUrl) THEN IssueContent(r1, storage)
            ELSE IF Truthy(CONFIG.spaceUrl)
            THEN [r1 EXCEPT !.pc = "wrapReq",
                            !.req = [kind |-> "wrapper", url |-> CONFIG.spaceUrl,
                                     cookie |-> serializeCookie(storage, CONFIG.spaceUrl)],
                            !.resp = NoResp,
                            !.wrapFetches = @ + 1]
            ELSE ChooseTarget(r1, NullUrl, storage)

\* The loop head and the start of an attempt, up to its first await.
BeginAttempt(r, a, storage) ==
    IF ~(a <= CONFIG.maxRetries)
    THEN [r EXCEPT !.pc = "done", !.attempt = a, !.req = NoReq, !.resp = NoResp]
    ELSE LET r1 == [r EXCEPT !.attempt = a, !.attempts = @ + 1,
                             !.startTime = takeStartTime(r, a),
                             !.responseTime = NoPing, !.targetUrl = NullUrl,
                             !.outcome = "none", !.status = 0, !.errKind = "none",
                             !.contentIssued = FALSE]
         IN IF Truthy(CONFIG.spaceUrl)
            THEN [r1 EXCEPT !.pc = "wrapReq",
                            !.req = [kind |-> "wrapper", url |-> CONFIG.spaceUrl,
                                     cookie |-> serializeCookie(storage, CONFIG.spaceUrl)],
                            !.resp = NoResp,
                            !.wrapFetches = @ + 1]
            ELSE ChooseTarget(r1, NullUrl, storage)

----------------------------------------------------------------------------
\* History of the directives the servers sent.

IsValidLine(line, n) == Len(line) = 3 /\ line[1] = n /\ line[2] = "=" /\ line[3] # ""

LineNames(batch) == {batch[i][1] : i \in {j \in 1..Len(batch) : Len(batch[j]) = 3}}

LastValue(batch, n) ==
    LET at == {i \in 1..Len(batch) : IsValidLine(batch[i], n)}
        last == CHOOSE i \in at : \A j \in at : j <= i
    IN batch[last][3]

NoteDirectives(history, host, batch) ==
    LET old == IF host \in DOMAIN history THEN history[host] ELSE EmptyEntry
        named == {n \in LineNames(batch) : \E i \in 1..Len(batch) : IsValidLine(batch[i], n)}
        new == [n \in named |-> LastValue(batch, n)] @@ old
    IN IF named = {} THEN history ELSE (host :> new) @@ history

\* No function is being applied on its own.
NoInput == [url |-> NullUrl, setCookieHeaders |-> <<>>, applied |-> FALSE]

----------------------------------------------------------------------------
\* The state after construction: the configuration is loaded, main has not run.

Init ==
    /\ CONFIG \in Configs
    /\ cookieStorage = [d \in {} |-> EmptyEntry]
    /\ cyc = [c \in Cycles |-> IdleCycle]
    /\ mainPc = "start"
    /\ lastDirective = [d \in {} |-> EmptyEntry]
    /\ input = NoInput

Running == mainPc \in {"first", "armed"}

\* A rejected keepAlive promise ends the process: main().catch exits for the
\* awaited first call, an unhandled rejection for a timer call.
AfterStep(c, r) == IF r.pc = "rejected" /\ mainPc = "armed" THEN "exited" ELSE mainPc

Step(c, r) ==
    /\ cyc' = [cyc EXCEPT ![c] = r]
    /\ mainPc' = AfterStep(c, r)

\* main, from validateConfig to the first await inside keepAlive.
Startup ==
    /\ mainPc = "start"
    /\ IF ~validateConfig(CONFIG) \/ initCookieExits(CONFIG)
       THEN /\ mainPc' = "exited"
            /\ UNCHANGED <<CONFIG, cookieStorage, cyc, lastDirective, input>>
       ELSE /\ cookieStorage' = initCookie(CONFIG) @@ cookieStorage
            /\ cyc' = [cyc EXCEPT ![1] = BeginAttempt(cyc[1], 1, cookieStorage')]
            /\ mainPc' = "first"
            /\ UNCHANGED <<CONFIG, lastDirective, input>>

\* Variant: the timer is armed after a successful first cycle alone.
ArmOnSuccess ==
    /\ mainPc = "first"
    /\ cyc[1].pc \in {"done", "rejected"}
    /\ mainPc' = IF cyc[1].pc = "done" /\ cyc[1].result = "Succeeded" THEN "armed"
                 ELSE "exited"
    /\ UNCHANGED <<CONFIG, cookieStorage, cyc, lastDirective, input>>

\* `await keepAlive()` of main settles: setInterval arms the timer.
Arm ==
    /\ mainPc = "first"
    /\ cyc[1].pc \in {"done", "rejected"}
    /\ mainPc' = IF cyc[1].pc = "done" THEN "armed" ELSE "exited"
    /\ UNCHANGED <<CONFIG, cookieStorage, cyc, lastDirective, input>>

\* The period of the timer Arm sets: setInterval(keepAlive, CONFIG.interval).
TimerPeriod == setIntervalDelay(CONFIG.interval)

\* An invocation record is free once its promise has settled.
Free(c) == cyc[c].pc \in {"idle", "done"}

\* Variant: a tick is skipped while an earlier invocation is running.
TickWhenIdle(c) ==
    /\ mainPc = "armed"
    /\ \A d \in Cycles : Free(d)
    /\ Free(c)
    /\ \A d \in Cycles : d < c => ~Free(d)
    /\ Step(c, BeginAttempt(IdleCycle, 1, cookieStorage))
    /\ UNCHANGED <<CONFIG, cookieStorage, lastDirective, input>>

\* The interval timer fires: a new keepAlive invocation (in the first free
\* record) runs to its first await.
Tick(c) ==
    /\ mainPc = "armed"
    /\ Free(c)
    /\ \A d \in Cycles : d < c => ~Free(d)
    /\ Step(c, BeginAttempt(IdleCycle, 1, cookieStorage))
    /\ UNCHANGED <<CONFIG, cookieStorage, lastDirective, input>>

\* The timer fires with no earlier invocation still running: the interval is
\* longer than a poll cycle.
TickAfter(c) ==
    /\ \A d \in Cycles : Free(d)
    /\ Tick(c)

\* Variant: a failed Space page request is an error of the attempt.
WrapperErrorThrows(c) ==
    /\ Running
    /\ cyc[c].pc = "wrapReq"
    /\ \E err \in TransportErrors : Step(c, CatchBlock(cyc[c], err))
    /\ UNCHANGED <<CONFIG, cookieStorage, lastDirective, input>>

\* The Space page request fails: getIframeUrl catches and returns null.
WrapperError(c) ==
    /\ Running
    /\ cyc[c].pc = "wrapReq"
    /\ \E err \in TransportErrors :
          Step(c, ChooseTarget(cyc[c], NullUrl, cookieStorage))
    /\ UNCHANGED <<CONFIG, cookieStorage, lastDirective, input>>

\* Variant: the Set-Cookie lines of the Space page are applied on a 200 alone.
WrapperHeadersOn200(c, batches) ==
    /\ Running
    /\ cyc[c].pc = "wrapReq"
    /\ \E statusCode \in StatusCodes, setCookieHeaders \in batches :
          /\ cookieStorage' = IF statusCode = 200
                              THEN applyResponseCookies(cookieStorage, CONFIG.spaceUrl,
                                                        setCookieHeaders)
                              ELSE cookieStorage
          /\ lastDirective' = NoteDirectives(lastDirective, CONFIG.spaceUrl.host,
                                             setCookieHeaders)
          /\ Step(c, [cyc[c] EXCEPT
                        !.pc = "wrapBody", !.req = NoReq,
                        !.resp = [status |-> statusCode, fate |-> "pending", body |-> <<>>]])
    /\ UNCHANGED <<CONFIG, input>>

\* The Space page answers: its Set-Cookie lines are applied, the body awaited.
WrapperHeaders(c, batches) ==
    /\ Running
    /\ cyc[c].pc = "wrapReq"
    /\ \E statusCode \in StatusCodes, setCookieHeaders \in batches :
          /\ cookieStorage' = applyResponseCookies(cookieStorage, CONFIG.spaceUrl,
                                                   setCookieHeaders)
          /\ lastDirective' = NoteDirectives(lastDirective, CONFIG.spaceUrl.host,
                                             setCookieHeaders)
          /\ Step(c, [cyc[c] EXCEPT
                        !.pc = "wrapBody", !.req = NoReq,
                        !.resp = [status |-> statusCode, fate |-> "pending", body |-> <<>>]])
    /\ UNCHANGED <<CONFIG, input>>

\* The network delivers the body of the response being read, or fails.
DeliverBody(c, pcs, bodies) ==
    /\ Running
    /\ cyc[c].pc \in pcs
    /\ cyc[c].resp.fate = "pending"
    /\ \/ \E body \in bodies :
             cyc' = [cyc EXCEPT ![c].resp.fate = "ok", ![c].resp.body = body]
       \/ \E err \in TransportErrors :
             cyc' = [cyc EXCEPT ![c].resp.fate = err]
    /\ UNCHANGED <<CONFIG, cookieStorage, mainPc, lastDirective, input>>

\* Variant: the Space page is accepted with any of the expected status codes.
WrapperBodyExpected(c) ==
    /\ Running
    /\ cyc[c].pc = "wrapBody"
    /\ cyc[c].resp.fate # "pending"
    /\ LET r == cyc[c]
           iframeUrl == IF r.resp.fate # "ok" THEN NullUrl
                        ELSE IF ~isExpectedStatusCode(r.resp.status) THEN NullUrl
                        ELSE extractIframeUrl(r.resp.body)
       IN Step(c, ChooseTarget(r, iframeUrl, cookieStorage))
    /\ UNCHANGED <<CONFIG, cookieStorage, lastDirective, input>>

\* `await response.body.text()` of getIframeUrl settles; keepAlive goes on
\* to the content request.
WrapperBody(c) ==
    /\ Running
    /\ cyc[c].pc = "wrapBody"
    /\ cyc[c].resp.fate # "pending"
    /\ LET r == cyc[c]
           iframeUrl == IF r.resp.fate # "ok" THEN NullUrl
                        ELSE IF r.resp.status # 200 THEN NullUrl
                        ELSE extractIframeUrl(r.resp.body)
       IN Step(c, ChooseTarget(r, iframeUrl, cookieStorage))
    /\ UNCHANGED <<CONFIG, cookieStorage, lastDirective, input>>

\* The content request fails.
ContentError(c) ==
    /\ Running
    /\ cyc[c].pc = "contReq"
    /\ \E err \in TransportErrors : Step(c, CatchBlock(cyc[c], err))
    /\ UNCHANGED <<CONFIG, cookieStorage, lastDirective, input>>

\* Variant: the Set-Cookie lines of the content response are left for later.
ContentHeadersCookiesLater(c, batches) ==
    /\ Running
    /\ cyc[c].pc = "contReq"
    /\ \E statusCode \in StatusCodes, setCookieHeaders \in batches :
          LET r == cyc[c]
          IN /\ cookieStorage' = cookieStorage
             /\ lastDirective' = NoteDirectives(lastDirective, r.targetUrl.host,
                                                setCookieHeaders)
             /\ Step(c, [r EXCEPT
                           !.pc = "contBody", !.req = NoReq,
                           !.responseTime = Elapsed(r.startTime, Now(r.attempt, "headers")),
                           !.resp = [status |-> statusCode, fate |-> "pending",
                                     body |-> <<>>]])
    /\ UNCHANGED <<CONFIG, input>>

\* The content endpoint answers: responseTime is taken, its Set-Cookie lines
\* are applied, the body awaited.
ContentHeaders(c, batches) ==
    /\ Running
    /\ cyc[c].pc = "contReq"
    /\ \E statusCode \in StatusCodes, setCookieHeaders \in batches :
          LET r == cyc[c]
          IN /\ cookieStorage' = applyResponseCookies(cookieStorage, r.targetUrl,
                                                      setCookieHeaders)
             /\ lastDirective' = NoteDirectives(lastDirective, r.targetUrl.host,
                                                setCookieHeaders)
             /\ Step(c, [r EXCEPT
                           !.pc = "contBody", !.req = NoReq,
                           !.responseTime = Elapsed(r.startTime, Now(r.attempt, "headers")),
                           !.resp = [status |-> statusCode, fate |-> "pending",
                                     body |-> <<>>]])
    /\ UNCHANGED <<CONFIG, input>>

\* Variant: an attempt that fails after the headers puts the jar back to the
\* seed cookies.
ContentBodyForgets(c) ==
    /\ Running
    /\ cyc[c].pc = "contBody"
    /\ cyc[c].resp.fate # "pending"
    /\ LET r == cyc[c]
           r2 == IF r.resp.fate # "ok" THEN CatchBlock(r, r.resp.fate)
                 ELSE Classify(r, r.resp.body)
       IN /\ Step(c, r2)
          /\ cookieStorage' = IF r2.outcome = "Success" THEN cookieStorage
                              ELSE initCookie(CONFIG)
    /\ UNCHANGED <<CONFIG, lastDirective, input>>

\* `await response.body.text()` of keepAlive settles: classify, or catch.
ContentBody(c) ==
    /\ Running
    /\ cyc[c].pc = "contBody"
    /\ cyc[c].resp.fate # "pending"
    /\ LET r == cyc[c]
       IN Step(c, IF r.resp.fate # "ok" THEN CatchBlock(r, r.resp.fate)
                  ELSE Classify(r, r.resp.body))
    /\ UNCHANGED <<CONFIG, cookieStorage, lastDirective, input>>

\* sleep(2000) ends: continue with the next attempt.
SleepDone(c) ==
    /\ Running
    /\ cyc[c].pc = "sleep"
    /\ Step(c, BeginAttempt(cyc[c], cyc[c].attempt + 1, cookieStorage))
    /\ UNCHANGED <<CONFIG, cookieStorage, lastDirective, input>>

\* pushToUptimeKuma returned without a request (not enabled, or a push URL
\* that does not parse).
PushReturn(c) ==
    /\ Running
    /\ cyc[c].pc = "pushRet"
    /\ Step(c, PushSettle(cyc[c], cyc[c].pushFate))
    /\ UNCHANGED <<CONFIG, cookieStorage, lastDirective, input>>

\* The push request fails.
PushError(c) ==
    /\ Running
    /\ cyc[c].pc = "pushReq"
    /\ \E err \in TransportErrors : Step(c, PushSettle(cyc[c], err))
    /\ UNCHANGED <<CONFIG, cookieStorage, lastDirective, input>>

\* The monitor answers with a status code.
PushHeaders(c) ==
    /\ Running
    /\ cyc[c].pc = "pushReq"
    /\ \E statusCode \in StatusCodes :
          Step(c, [cyc[c] EXCEPT
                     !.pc = "pushBody", !.req = NoReq,
                     !.resp = [status |-> statusCode, fate |-> "pending", body |-> <<>>]])
    /\ UNCHANGED <<CONFIG, cookieStorage, lastDirective, input>>

\* The monitor's body is read (or not), the status and the JSON checked.
PushBody(c) ==
    /\ Running
    /\ cyc[c].pc = "pushBody"
    /\ \E got \in TransportErrors \cup KumaBodies :
          LET fate == IF got \in TransportErrors THEN got
                      ELSE IF cyc[c].resp.status # 200 THEN "status"
                      ELSE got
          IN Step(c, PushSettle(cyc[c], fate))
    /\ UNCHANGED <<CONFIG, cookieStorage, lastDirective, input>>

Next ==
    \/ Startup
    \/ Arm
    \/ \E c \in Cycles :
          \/ TickAfter(c)
          \/ WrapperError(c)
          \/ WrapperHeaders(c, SetCookieBatches)
          \/ DeliverBody(c, {"wrapBody"}, WrapperBodies)
          \/ WrapperBody(c)
          \/ ContentError(c)
          \/ ContentHeaders(c, SetCookieBatches)
          \/ DeliverBody(c, {"contBody"}, ContentBodies)
          \/ ContentBody(c)
          \/ SleepDone(c)
          \/ PushReturn(c)
          \/ PushError(c)
          \/ PushHeaders(c)
          \/ PushBody(c)

Spec == Init /\ [][Next]_vars

----------------------------------------------------------------------------
\* Poll cycles that outlast the interval: the timer fires whether or not an
\* earlier keepAlive invocation is still running.  The configurations and the
\* answers of the network are fewer than in Spec; no monitor is configured,
\* so that pushToUptimeKuma returns without a request.

OverlapConfigs ==
    {cfg \in Configs :
        /\ validateConfig(cfg)
        /\ cfg.spaceUrl = SpacePage
        /\ cfg.targetUrl \in {EmptyUrl, DirectUrl}
        /\ cfg.expectedStatusCodes = {200}
        /\ cfg.maxRetries = 2
        /\ cfg.uptimeKuma = NoKuma}

OverlapBatches ==
    { <<>>, << Pair("spaces-jwt", "v1") >>, << Pair("spaces-jwt", "a%20b") >> }

OverlapWrapperBodies == { <<>>, << Element("iframe", "space-iframe", TRUE, SignedUrl) >> }

OverlapContentBodies == { <<>>, << Text("c") >> }

OverlapInit ==
    /\ CONFIG \in OverlapConfigs
    /\ cookieStorage = [d \in {} |-> EmptyEntry]
    /\ cyc = [c \in Cycles |-> IdleCycle]
    /\ mainPc = "start"
    /\ lastDirective = [d \in {} |-> EmptyEntry]
    /\ input = NoInput

OverlapNext ==
    \/ Startup
    \/ Arm
    \/ \E c \in Cycles :
          \/ Tick(c)
          \/ WrapperError(c)
          \/ WrapperHeaders(c, OverlapBatches)
          \/ DeliverBody(c, {"wrapBody"}, OverlapWrapperBodies)
          \/ WrapperBody(c)
          \/ ContentError(c)
          \/ ContentHeaders(c, OverlapBatches)
          \/ DeliverBody(c, {"contBody"}, OverlapContentBodies)
          \/ ContentBody(c)
          \/ SleepDone(c)
          \/ PushReturn(c)

OverlapSpec == OverlapInit /\ [][OverlapNext]_vars

\* The same, with the scheduling the runtime gives: the timer set by
\* setInterval keeps firing, `await keepAlive()` resumes main, and every
\* request and sleep of a running invocation settles (undici's headersTimeout
\* and bodyTimeout, setTimeout).
TickAny == \E c \in Cycles : Tick(c)

CycleStep(c) ==
    \/ WrapperError(c)
    \/ WrapperHeaders(c, OverlapBatches)
    \/ DeliverBody(c, {"wrapBody"}, OverlapWrapperBodies)
    \/ WrapperBody(c)
    \/ ContentError(c)
    \/ ContentHeaders(c, OverlapBatches)
    \/ DeliverBody(c, {"contBody"}, OverlapContentBodies)
    \/ ContentBody(c)
    \/ SleepDone(c)
    \/ PushReturn(c)

LiveSpec ==
    /\ OverlapSpec
    /\ WF_vars(Startup)
    /\ WF_vars(Arm)
    /\ WF_vars(TickAny)
    /\ \A c \in Cycles : WF_vars(CycleStep(c))

----------------------------------------------------------------------------
\* The cookie jar on its own: updateCookies applied to the jar initCookie
\* leaves, with longer batches and a second cookie name, outside a poll cycle.

JarBatch == MaxBatch + 1

\* Set-Cookie lines: two names, a percent-encoded value, a value holding a
\* "%" escape of its own, a deletion and a line without a name.
JarLines ==
    { Pair("spaces-jwt", "v1"), Pair("spaces-jwt", "a%20b"), Pair("sid", "a%2520b"),
      <<"spaces-jwt", "=">>, <<"v1">> }

ForeignUrl == Url("https", "other.example", "/")

\* The URLs responses arrive for: a seeded host, a host the jar has no entry
\* for, and a string extractDomain gets no host from.
JarUrls == {SpacePage, ForeignUrl, RelativeUrl}

JarInputs ==
    [url : JarUrls, setCookieHeaders : BSeq(JarLines, JarBatch) \ {<<>>}, applied : {FALSE}]

JarConfigs ==
    {cfg \in Configs :
        /\ validateConfig(cfg)
        /\ cfg.maxRetries = 1
        /\ cfg.expectedStatusCodes = {200}
        /\ cfg.uptimeKuma = NoKuma}

CookieInit ==
    /\ CONFIG \in JarConfigs
    /\ cookieStorage = initCookie(CONFIG)
    /\ cyc = [c \in Cycles |-> IdleCycle]
    /\ mainPc = "armed"
    /\ lastDirective = [d \in {} |-> EmptyEntry]
    /\ input = NoInput

\* A response with Set-Cookie lines arrives for a URL.
Receive ==
    /\ input = NoInput
    /\ input' \in JarInputs
    /\ UNCHANGED <<CONFIG, cookieStorage, cyc, mainPc, lastDirective>>

\* updateCookies(url, headers) runs on it.
Update ==
    /\ input # NoInput
    /\ ~input.applied
    /\ cookieStorage' = updateCookies(cookieStorage, input.url, input.setCookieHeaders)
    /\ lastDirective' = NoteDirectives(lastDirective, extractDomain(input.url),
                                       input.setCookieHeaders)
    /\ input' = [input EXCEPT !.applied = TRUE]
    /\ UNCHANGED <<CONFIG, cyc, mainPc>>

\* The caller is done with the response.
Handled ==
    /\ input.applied
    /\ input' = NoInput
    /\ UNCHANGED <<CONFIG, cookieStorage, cyc, mainPc, lastDirective>>

CookieNext == Receive \/ Update \/ Handled

CookieSpec == CookieInit /\ [][CookieNext]_vars

----------------------------------------------------------------------------
\* The jar under URLs that differ in one part: the Space page over http, on
\* another port, with another path and query, and a URL of another host.

HttpSpacePage == Url("http", "huggingface.co", "/spaces/u/s")

PortSpacePage ==
    [scheme |-> "https", host |-> "huggingface.co", port |-> "8443", path |-> "/spaces/u/s"]

QuerySpacePage == Url("https", "huggingface.co", "/login?next=1")

ScopeUrls == {SpacePage, HttpSpacePage, PortSpacePage, QuerySpacePage, DirectUrl}

ScopeBatches ==
    { << Pair("spaces-jwt", "v1") >>, << Pair("spaces-jwt", "a%20b") >>, << Pair("sid", "v1") >> }

ScopeInputs == [url : ScopeUrls, setCookieHeaders : ScopeBatches, applied : {FALSE}]

\* A response with Set-Cookie lines arrives for one of these URLs.
ScopeReceive ==
    /\ input = NoInput
    /\ input' \in ScopeInputs
    /\ UNCHANGED <<CONFIG, cookieStorage, cyc, mainPc, lastDirective>>

ScopeNext == ScopeReceive \/ Update \/ Handled

ScopeSpec == CookieInit /\ [][ScopeNext]_vars

----------------------------------------------------------------------------
\* Startup over more configurations: seeds of several shapes, a TARGET_URL on
\* the host of the Space page; two attempts per cycle.

SamePageUrl == Url("https", "huggingface.co", "/embed/u/s")

StartConfigs ==
    [ spaceUrl : {EmptyUrl, SpacePage, RelativeUrl},
      targetUrl : {EmptyUrl, DirectUrl, SamePageUrl, RelativeUrl},
      cookie : {<<>>, SeedCookie, TwoCookies, GarbageCookie, NumberCookie},
      interval : {configuredInterval(f, e) : f \in FileIntervals, e \in EnvIntervals},
      expectedStatusCodes : {{200}},
      maxRetries : {2},
      uptimeKuma : {NoKuma, Kuma(KumaUrl, TRUE)} ]

StartInit ==
    /\ CONFIG \in StartConfigs
    /\ cookieStorage = [d \in {} |-> EmptyEntry]
    /\ cyc = [c \in Cycles |-> IdleCycle]
    /\ mainPc = "start"
    /\ lastDirective = [d \in {} |-> EmptyEntry]
    /\ input = NoInput

\* The steps of Spec, the network answering with fewer batches and bodies.
StartNext ==
    \/ Startup
    \/ Arm
    \/ \E c \in Cycles :
          \/ TickAfter(c)
          \/ WrapperError(c)
          \/ WrapperHeaders(c, OverlapBatches)
          \/ DeliverBody(c, {"wrapBody"}, OverlapWrapperBodies)
          \/ WrapperBody(c)
          \/ ContentError(c)
          \/ ContentHeaders(c, OverlapBatches)
          \/ DeliverBody(c, {"contBody"}, OverlapContentBodies)
          \/ ContentBody(c)
          \/ SleepDone(c)
          \/ PushReturn(c)
          \/ PushError(c)
          \/ PushHeaders(c)
          \/ PushBody(c)

StartSpec == StartInit /\ [][StartNext]_vars

----------------------------------------------------------------------------
\* A Space page whose iframe points to a host that is neither the host of the
\* page nor the host of TARGET_URL; that host answers with Set-Cookie lines
\* of every kind.

ThirdHostConfigs ==
    [ spaceUrl : {SpacePage},
      targetUrl : {EmptyUrl, DirectUrl},
      cookie : {SeedCookie, TwoCookies},
      interval : {DefaultInterval},
      expectedStatusCodes : {{200}},
      maxRetries : {2},
      uptimeKuma : {NoKuma} ]

\* No Set-Cookie header, a cookie, a deletion, a line without a name followed
\* by a cookie.
ThirdHostBatches ==
    { <<>>, << Pair("spaces-jwt", "v1") >>, << <<"spaces-jwt", "=">> >>,
      << <<"v1">>, Pair("sid", "a%20b") >> }

ThirdHostWrapperBodies ==
    { <<>>, << Element("iframe", "space-iframe", TRUE, SignedUrl) >>,
      << Element("iframe", "space-iframe", TRUE, ForeignUrl) >> }

ThirdHostInit ==
    /\ CONFIG \in ThirdHostConfigs
    /\ cookieStorage = [d \in {} |-> EmptyEntry]
    /\ cyc = [c \in Cycles |-> IdleCycle]
    /\ mainPc = "start"
    /\ lastDirective = [d \in {} |-> EmptyEntry]
    /\ input = NoInput

ThirdHostNext ==
    \/ Startup
    \/ Arm
    \/ \E c \in Cycles :
          \/ TickAfter(c)
          \/ WrapperError(c)
          \/ WrapperHeaders(c, OverlapBatches)
          \/ DeliverBody(c, {"wrapBody"}, ThirdHostWrapperBodies)
          \/ WrapperBody(c)
          \/ ContentError(c)
          \/ ContentHeaders(c, ThirdHostBatches)
          \/ DeliverBody(c, {"contBody"}, OverlapContentBodies)
          \/ ContentBody(c)
          \/ SleepDone(c)
          \/ PushReturn(c)

ThirdHostSpec == ThirdHostInit /\ [][ThirdHostNext]_vars

----------------------------------------------------------------------------
\* Overlapping poll cycles whose responses carry several Set-Cookie lines:
\* two cookies that the server refreshes together.

AtomicConfigs == {cfg \in OverlapConfigs : cfg.targetUrl = DirectUrl}

AtomicBatches ==
    { <<>>, << Pair("spaces-jwt", "v1"), Pair("sid", "v1") >>,
      << Pair("spaces-jwt", "a%20b"), Pair("sid", "a%20b") >> }

AtomicInit ==
    /\ CONFIG \in AtomicConfigs
    /\ cookieStorage = [d \in {} |-> EmptyEntry]
    /\ cyc = [c \in Cycles |-> IdleCycle]
    /\ mainPc = "start"
    /\ lastDirective = [d \in {} |-> EmptyEntry]
    /\ input = NoInput

AtomicNext ==
    \/ Startup
    \/ Arm
    \/ \E c \in Cycles :
          \/ Tick(c)
          \/ WrapperError(c)
          \/ WrapperHeaders(c, AtomicBatches)
          \/ DeliverBody(c, {"wrapBody"}, OverlapWrapperBodies)
          \/ WrapperBody(c)
          \/ ContentError(c)
          \/ ContentHeaders(c, AtomicBatches)
          \/ DeliverBody(c, {"contBody"}, OverlapContentBodies)
          \/ ContentBody(c)
          \/ SleepDone(c)
          \/ PushReturn(c)

AtomicSpec == AtomicInit /\ [][AtomicNext]_vars

----------------------------------------------------------------------------
\* Vocabulary of the properties.

\* Invocation c takes the step.
Moved(c) == cyc'[c] # cyc[c]

PushPcs == {"pushRet", "pushReq", "pushBody"}

RetryableOutcomes == {"ContentFailure", "UnexpectedStatus", "TransportError"}

\* Some failure marker occurs in the body.
MarkerOccurs(body) ==
    \E k \in 1..Len(FAILURE_MARKERS), i \in 1..(Len(body) + 1), j \in 0..Len(body) :
        SubSeq(body, i, j) = FAILURE_MARKERS[k]

\* The positions of the distinguished iframe elements of a page.
FramesAt(body) ==
    {i \in 1..Len(body) : body[i].tag = "iframe" /\ body[i].class = "space-iframe"}

FirstFrame(body) == body[CHOOSE i \in FramesAt(body) : \A j \in FramesAt(body) : i <= j]

\* The page holds the distinguished iframe, with a src that is not empty.
FrameHasSrc(body) ==
    /\ FramesAt(body) # {}
    /\ FirstFrame(body).hasSrc
    /\ FirstFrame(body).src # EmptyUrl

\* The Space page response r.resp, body delivered, gives no URL.
PageGivesNoUrl(r) ==
    \/ r.resp.fate # "ok"
    \/ r.resp.status # 200
    \/ ~FrameHasSrc(r.resp.body)

\* Invocation c leaves getIframeUrl without a URL in this step.
ResolvesNothing(c) ==
    /\ Moved(c)
    /\ \/ cyc[c].pc = "wrapReq" /\ cyc'[c].pc # "wrapBody"
       \/ cyc[c].pc = "wrapBody" /\ cyc[c].resp.fate # "pending" /\ PageGivesNoUrl(cyc[c])

\* Invocation c reads the body of the content response in this step.
ReadsContent(c) ==
    Moved(c) /\ cyc[c].pc = "contBody" /\ cyc[c].resp.fate = "ok"

\* Invocation c issues a Space page or content request in this step.
Issues(c) ==
    /\ cyc'[c].req # cyc[c].req
    /\ cyc'[c].req.kind \in {"wrapper", "content"}

Down(msg, ping) == [status |-> "down", msg |-> msg, ping |-> ping]

----------------------------------------------------------------------------
\* C1: a content response whose body contains a failure marker is classified
\* ContentFailure whatever its status code, a code of expectedStatusCodes
\* included; never Success or UnexpectedStatus.
C1_MarkerIsContentFailure ==
    [][\A c \in Cycles :
          ReadsContent(c) /\ MarkerOccurs(cyc[c].resp.body)
          => /\ cyc'[c].outcome = "ContentFailure"
             /\ cyc'[c].status = cyc[c].resp.status]_vars

C1_Witness ==
    \E c \in Cycles :
        /\ cyc[c].outcome = "ContentFailure"
        /\ cyc[c].status \in CONFIG.expectedStatusCodes

\* C2: a content response without a failure marker is Success exactly when
\* its status code is in expectedStatusCodes and UnexpectedStatus otherwise;
\* every body and status gets exactly one of the three outcomes.
C2_StatusDecidesWithoutMarker ==
    [][\A c \in Cycles :
          ReadsContent(c)
          => /\ cyc'[c].outcome \in {"Success", "ContentFailure", "UnexpectedStatus"}
             /\ ~MarkerOccurs(cyc[c].resp.body)
                => /\ cyc'[c].outcome = "Success"
                      <=> cyc[c].resp.status \in CONFIG.expectedStatusCodes
                   /\ cyc'[c].outcome = "UnexpectedStatus"
                      <=> cyc[c].resp.status \notin CONFIG.expectedStatusCodes]_vars

C2_Witness ==
    \E c \in Cycles :
        /\ cyc[c].outcome = "Success"
        /\ cyc[c].status # 200

\* C3: with maxRetries N >= 1, a cycle whose attempts all end in a retryable
\* failure makes exactly N attempts, sleeps after each failed attempt but the
\* last (N-1 times) and ends with exactly one "down" push; whether a retry
\* follows a failure depends on the attempts left alone, not on its kind.
C3_ExhaustedAfterMaxRetries ==
    \A c \in Cycles :
        /\ cyc[c].outcome \in RetryableOutcomes /\ cyc[c].pc \in PushPcs \cup {"done"}
           => /\ cyc[c].attempts = CONFIG.maxRetries
              /\ cyc[c].sleeps = CONFIG.maxRetries - 1
              /\ Len(cyc[c].pushes) = 1
              /\ cyc[c].pushes[1].status = "down"
        /\ cyc[c].pc = "sleep"
           => /\ cyc[c].outcome \in RetryableOutcomes
              /\ cyc[c].attempts < CONFIG.maxRetries
              /\ cyc[c].sleeps = cyc[c].attempts
              /\ cyc[c].pushes = <<>>

C3_Witness ==
    \E c \in Cycles :
        /\ CONFIG.maxRetries = 3
        /\ cyc[c].pc = "done"
        /\ cyc[c].outcome = "UnexpectedStatus"
        /\ cyc[c].attempts = 3
        /\ cyc[c].sleeps = 2

\* C4: a cycle ends at its first successful attempt k: k attempts, one "up"
\* push and no "down", and the latency pushed is measured inside attempt k.
C4_EndsAtFirstSuccess ==
    \A c \in Cycles :
        cyc[c].outcome = "Success"
        => /\ cyc[c].pc \in PushPcs \cup {"done"}
           /\ cyc[c].attempts = cyc[c].attempt
           /\ cyc[c].sleeps = cyc[c].attempt - 1
           /\ cyc[c].pushes =
                << [status |-> "up", msg |-> Msg("OK", 0),
                    ping |-> Elapsed(Now(cyc[c].attempt, "attemptStart"),
                                     Now(cyc[c].attempt, "headers"))] >>

C4_Witness ==
    \E c \in Cycles :
        /\ cyc[c].pc = "done"
        /\ cyc[c].outcome = "Success"
        /\ cyc[c].attempt = 2

\* C5: every request issued to a host carries, for each cookie name a valid
\* Set-Cookie directive n=v of that host has been processed for, the pair
\* n=v of the latest such directive.
C5_CarriesLatestDirective ==
    [][\A c \in Cycles :
          Issues(c)
          => LET host == cyc'[c].req.url.host
             IN host \in DOMAIN lastDirective
                => \A n \in DOMAIN lastDirective[host] :
                      Pair(n, lastDirective[host][n]) \in cyc'[c].req.cookie]_vars

\* C6: however the monitor push goes, the cycle that made it ends as it was
\* going to: same terminal classification, no further attempt, sleep or push,
\* and the process is not terminated.
C6_PushNeverChangesOutcome ==
    [][\A c \in Cycles :
          Moved(c) /\ cyc[c].pc \in PushPcs
          => /\ cyc'[c].pc \in {"pushBody", "done"}
             /\ cyc'[c].result = cyc[c].result
             /\ cyc'[c].outcome = cyc[c].outcome
             /\ cyc'[c].attempts = cyc[c].attempts
             /\ cyc'[c].sleeps = cyc[c].sleeps
             /\ cyc'[c].pushes = cyc[c].pushes
             /\ mainPc' = mainPc]_vars

C6_Witness ==
    \E c \in Cycles :
        /\ cyc[c].pc = "done"
        /\ cyc[c].result = "Succeeded"
        /\ cyc[c].pushFate \in TransportErrors \cup {"status", "notJson", "notOk"}

\* Where a cycle without a target stands.
C7_NoTargetState ==
    \A c \in Cycles :
        cyc[c].outcome = "NoTarget"
        => /\ cyc[c].pc \in PushPcs \cup {"done"}
           /\ ~cyc[c].contentIssued
           /\ cyc[c].pushes = << Down(Msg("noTarget", 0), NoPing) >>
           /\ cyc[c].attempts = cyc[c].attempt
           /\ cyc[c].sleeps = cyc[c].attempt - 1

\* How a cycle gets there, and that it stays there.
C7_NoTargetStep ==
    \A c \in Cycles :
        /\ ResolvesNothing(c) /\ ~Truthy(CONFIG.targetUrl)
           => cyc'[c].outcome = "NoTarget"
        /\ Moved(c) /\ cyc[c].outcome = "NoTarget" /\ cyc[c].pc # "done"
           => cyc'[c].outcome = "NoTarget" /\ cyc'[c].attempts = cyc[c].attempts

\* C7: an attempt that finds no usable target (no URL from the Space page,
\* no TARGET_URL) ends the cycle at once: one "down" push, no content
\* request, no sleep and no further attempt, whatever attempts remain.
C7_NoTargetEndsCycle == []C7_NoTargetState /\ [][C7_NoTargetStep]_vars

C7_Witness ==
    \E c \in Cycles :
        /\ cyc[c].pc = "done"
        /\ cyc[c].outcome = "NoTarget"
        /\ cyc[c].attempt = 1
        /\ CONFIG.maxRetries = 3

\* C8 as stated: a resolution failure is retried, and "down" is pushed only
\* after maxRetries attempts.
C8_AsStated ==
    \A c \in Cycles :
        cyc[c].pc = "done" /\ cyc[c].outcome = "NoTarget"
        => cyc[c].attempts = CONFIG.maxRetries

\* C8, amended: a resolution failure is not retried: the attempt that finds
\* no usable target pushes "down" and ends the cycle without a sleep, also
\* when attempts remain.
C8_ResolutionFailureNotRetried ==
    [][\A c \in Cycles :
          ResolvesNothing(c) /\ ~Truthy(CONFIG.targetUrl)
          => /\ cyc'[c].pc \in {"pushRet", "pushReq"}
             /\ cyc'[c].result = "NoTarget"
             /\ cyc'[c].sleeps = cyc[c].sleeps
             /\ cyc'[c].pushes = Append(cyc[c].pushes, Down(Msg("noTarget", 0), NoPing))]_vars

C8_Witness ==
    \E c \in Cycles :
        /\ cyc[c].result = "NoTarget"
        /\ cyc[c].attempt < CONFIG.maxRetries
        /\ cyc[c].pc \in PushPcs

\* C9: when the Space page answers 200 and its body holds the distinguished
\* iframe with a non-empty src, the target of the attempt is that src, also
\* when TARGET_URL is configured.
C9_WrapperPreferred ==
    [][\A c \in Cycles :
          /\ Moved(c)
          /\ cyc[c].pc = "wrapBody"
          /\ cyc[c].resp.fate = "ok"
          /\ cyc[c].resp.status = 200
          /\ FrameHasSrc(cyc[c].resp.body)
          => LET src == FirstFrame(cyc[c].resp.body).src
             IN /\ cyc'[c].targetUrl = src
                /\ IsValidUrl(src)
                   => cyc'[c].pc = "contReq" /\ cyc'[c].req.url = src]_vars

C9_Witness ==
    \E c \in Cycles :
        /\ cyc[c].pc = "contReq"
        /\ cyc[c].req.url = SignedUrl
        /\ CONFIG.targetUrl = DirectUrl

\* C10: with TARGET_URL configured, an attempt that gets no URL from the
\* Space page (none configured, request or body failed, status not 200,
\* iframe or src missing, src empty) takes TARGET_URL as its target and
\* issues the content request to it.
C10_FallsBackToTargetUrl ==
    [][\A c \in Cycles :
          /\ Truthy(CONFIG.targetUrl)
          /\ \/ ResolvesNothing(c)
             \/ /\ Moved(c)
                /\ ~Truthy(CONFIG.spaceUrl)
                /\ cyc[c].pc \in {"idle", "done", "sleep"}
                /\ cyc'[c].attempts >= 1
          => /\ cyc'[c].targetUrl = CONFIG.targetUrl
             /\ cyc'[c].pc = "contReq"
             /\ cyc'[c].req.kind = "content"
             /\ cyc'[c].req.url = CONFIG.targetUrl
             /\ cyc'[c].contentIssued]_vars

C10_Witness ==
    \E c \in Cycles :
        /\ cyc[c].pc = "contReq"
        /\ Truthy(CONFIG.spaceUrl)
        /\ cyc[c].req.url = DirectUrl
        /\ cyc[c].wrapFetches = cyc[c].attempt

----------------------------------------------------------------------------
\* Vocabulary of the cookie properties.

\* The step applies the Set-Cookie lines of a response for the URL of host X
\* (the Space page response, the content response).
WrapperCookieStep(c) == Moved(c) /\ cyc[c].pc = "wrapReq" /\ cyc'[c].pc = "wrapBody"

ContentCookieStep(c) == Moved(c) /\ cyc[c].pc = "contReq" /\ cyc'[c].pc = "contBody"

\* Of the jar, at most the entry of host X changes in the step; it exists
\* afterwards if a valid directive was processed.
OnlyEntryChanges(X) ==
    /\ DOMAIN cookieStorage \subseteq DOMAIN cookieStorage'
    /\ DOMAIN cookieStorage' \subseteq DOMAIN cookieStorage \cup {X}
    /\ \A h \in DOMAIN cookieStorage : h # X => cookieStorage'[h] = cookieStorage[h]
    /\ lastDirective' # lastDirective => X \in DOMAIN cookieStorage'

\* The lines of a batch that give a cookie: name, "=", a value that is not empty.
GoodLines(batch) ==
    {i \in 1..Len(batch) : Len(batch[i]) = 3 /\ batch[i][2] = "=" /\ batch[i][3] # ""}

\* The last good line of the batch for name n (0: none).
LastGoodLine(batch, n) ==
    LET at == {i \in GoodLines(batch) : batch[i][1] = n}
    IN IF at = {} THEN 0 ELSE CHOOSE i \in at : \A j \in at : j <= i

\* The enumerations of a finite set, each element once.
Orderings(S) ==
    {f \in [1..Cardinality(S) -> S] : \A i, j \in 1..Cardinality(S) : f[i] = f[j] => i = j}

----------------------------------------------------------------------------
\* C11: applying the Set-Cookie lines of a response changes the jar entry of
\* the response's host alone (creating it if absent): the Space page response
\* that of the Space page host, the content response that of the target host;
\* every other entry, one seeded from the same seed included, is as before.
C11_OnlyTheHostsEntryChanges ==
    [][/\ \A c \in Cycles :
             /\ WrapperCookieStep(c) => OnlyEntryChanges(CONFIG.spaceUrl.host)
             /\ ContentCookieStep(c) => OnlyEntryChanges(cyc[c].targetUrl.host)
       /\ mainPc # "start" /\ cookieStorage' # cookieStorage
          => \E c \in Cycles : WrapperCookieStep(c) \/ ContentCookieStep(c)]_vars

C11_Witness ==
    /\ DOMAIN cookieStorage = {SpacePage.host, DirectUrl.host}
    /\ cookieStorage[DirectUrl.host] = parseCookie(SeedCookie)
    /\ "spaces-jwt" \in DOMAIN cookieStorage[SpacePage.host]
    /\ DirectUrl.host \notin DOMAIN lastDirective

\* C12: each line of a Set-Cookie batch is handled on its own: a line that
\* gives no cookie is skipped, and every good line before and after it is
\* applied (the entry holds, for each name, the value of the batch's last good
\* line for it, and what it held before for every other name).
C12_BadLineIsSkipped ==
    [][~input.applied /\ input'.applied /\ IsValidUrl(input.url)
       => LET X == input.url.host
              batch == input.setCookieHeaders
              old == IF X \in DOMAIN cookieStorage THEN cookieStorage[X] ELSE EmptyEntry
              new == cookieStorage'[X]
              set == {batch[i][1] : i \in GoodLines(batch)}
          IN /\ DOMAIN new = DOMAIN old \cup set
             /\ \A n \in set : new[n] = decode(batch[LastGoodLine(batch, n)][3])
             /\ \A n \in DOMAIN old \ set : new[n] = old[n]]_vars

C12_Witness ==
    /\ input.applied
    /\ input.url = ForeignUrl
    /\ input.setCookieHeaders = << Pair("spaces-jwt", "v1"), <<"v1">>, Pair("sid", "a%2520b") >>
    /\ cookieStorage[ForeignUrl.host] = ("spaces-jwt" :> "v1") @@ ("sid" :> "a%20b")

----------------------------------------------------------------------------
\* Vocabulary of the scheduling properties.

\* The keepAlive invocations whose promise has not settled.
RunningCycles == {c \in Cycles : cyc[c].pc \notin {"idle", "done", "rejected"}}

\* The requests the process has issued and not yet got an answer to.
InFlight == {c \in Cycles : cyc[c].req.kind # "none"}

\* The hosts initCookie seeds.
SeededHosts ==
    {u.host : u \in {v \in {CONFIG.spaceUrl, CONFIG.targetUrl} : Truthy(v) /\ IsValidUrl(v)}}

\* C13: the value the jar holds for cookie n of host X is the value of the
\* last valid directive processed for n on X, in whatever order overlapping
\* cycles processed their responses, and the seed value of n if X was seeded
\* and no such directive has been processed; the jar holds nothing else.
C13_JarHoldsLatestValue ==
    mainPc # "start"
    => /\ DOMAIN cookieStorage = SeededHosts \cup DOMAIN lastDirective
       /\ \A X \in DOMAIN cookieStorage :
             LET seeded == IF X \in SeededHosts THEN DOMAIN parseCookie(CONFIG.cookie) ELSE {}
                 sent == IF X \in DOMAIN lastDirective THEN DOMAIN lastDirective[X] ELSE {}
             IN /\ DOMAIN cookieStorage[X] = seeded \cup sent
                /\ \A n \in sent : cookieStorage[X][n] = decode(lastDirective[X][n])
                /\ \A n \in seeded \ sent : cookieStorage[X][n] = parseCookie(CONFIG.cookie)[n]

C13_Witness ==
    /\ Cardinality(RunningCycles) = 2
    /\ \A c \in RunningCycles : cyc[c].pc = "contBody"
    /\ DirectUrl.host \in DOMAIN lastDirective
    /\ SpacePage.host \notin DOMAIN lastDirective
    /\ lastDirective[DirectUrl.host]["spaces-jwt"] = "a%20b"
    /\ DOMAIN cookieStorage[DirectUrl.host] = {"token", "spaces-jwt"}
    /\ cookieStorage[DirectUrl.host]["token"] = "v0"
    /\ cookieStorage[DirectUrl.host]["spaces-jwt"] = "a b"

\* C15 as stated: the latency pushed runs from a start mark taken after
\* target resolution (the Space page fetch is outside the span) to an end
\* mark taken after the response body has been read.  A span that starts at
\* the top of an attempt fetching the Space page, or ends at the arrival of
\* the headers, is not such a span.
C15_LatencyBracketsContentRequest ==
    \A c \in Cycles :
        \A i \in 1..Len(cyc[c].pushes) :
            LET ping == cyc[c].pushes[i].ping
            IN ping # NoPing
               => /\ ~(ping.from.at = "attemptStart" /\ Truthy(CONFIG.spaceUrl))
                  /\ ping.to.at # "headers"

\* C16: after a successful startup the first poll cycle starts at once, the
\* timer is armed when it ends whatever its outcome, and from then on ticks
\* start new cycles again and again, whether or not earlier ones still run.
C16_StartsAtOnce ==
    mainPc = "start" /\ validateConfig(CONFIG) => mainPc' = "first" /\ cyc'[1] # IdleCycle

C17_AsStated ==
    RunningCycles # {} /\ RunningCycles # Cycles => ENABLED TickAny

\* C17, amended: a cycle started by the timer never delays the next start,
\* but the first cycle does: the timer is armed when it has ended, so no tick
\* comes while it runs.
C17_OnlyFirstCycleDelays ==
    /\ mainPc = "armed" /\ RunningCycles # Cycles => ENABLED TickAny
    /\ mainPc = "first" => ~ENABLED TickAny /\ RunningCycles \subseteq {1}

C17_Witness ==
    /\ mainPc = "armed"
    /\ RunningCycles = {1}
    /\ cyc[1].pc = "sleep"
    /\ cyc[1].attempt = 1
    /\ ENABLED TickAny

\* C18: overlapping cycles work on the one jar with no exclusion: a request
\* issued by any cycle carries the jar entry as it is then, other cycles'
\* updates included, and a response's valid directives overwrite the entry
\* whatever cycle wrote it before.
C18_OneJarNoExclusion ==
    [][\A c \in Cycles :
          /\ Issues(c)
             => LET X == cyc'[c].req.url.host
                IN cyc'[c].req.cookie =
                      IF X \in DOMAIN cookieStorage'
                      THEN {Pair(n, encodeURIComponent(cookieStorage'[X][n])) :
                               n \in DOMAIN cookieStorage'[X]}
                      ELSE {}
          /\ (WrapperCookieStep(c) \/ ContentCookieStep(c)) /\ lastDirective' # lastDirective
             => LET X == IF WrapperCookieStep(c) THEN CONFIG.spaceUrl.host
                         ELSE cyc[c].targetUrl.host
                IN \A n \in DOMAIN lastDirective'[X] :
                      cookieStorage'[X][n] = decode(lastDirective'[X][n])]_vars

C18_Witness ==
    /\ RunningCycles = {1, 2}
    /\ cyc[1].pc = "contReq"
    /\ cyc[1].attempt = 1
    /\ cyc[2].pc = "contBody"
    /\ cyc[2].attempt = 2
    /\ DirectUrl.host \in DOMAIN lastDirective
    /\ lastDirective[DirectUrl.host]["spaces-jwt"] = "a%20b"
    /\ Pair("spaces-jwt", "a%20b") \in cyc[1].req.cookie

\* C19 as stated: at most one request is in flight in every state.
C19_AsStated == Cardinality(InFlight) <= 1

\* C19, amended: a keepAlive invocation has at most one request in flight
\* and none once it has settled, so at most one request is in flight while
\* cycles do not overlap; overlapping cycles have a request in flight each.
C19_OneRequestPerRunningCycle ==
    /\ InFlight \subseteq RunningCycles
    /\ \A c \in InFlight : cyc[c].pc \in {"wrapReq", "contReq", "pushReq"}
    /\ Cardinality(RunningCycles) <= 1 => Cardinality(InFlight) <= 1

C19_Witness ==
    /\ InFlight = {1, 2}
    /\ cyc[1].req.kind = "content"
    /\ cyc[2].req.kind = "wrapper"

\* C20: no failure of a Space page fetch, content fetch, Set-Cookie line or
\* monitor push makes a keepAlive promise reject or ends the process (only a
\* configuration that fails validation does), and once the timer is armed a
\* tick can start the next cycle whenever the last one has ended.
C20_NoErrorEscapes ==
    /\ \A c \in Cycles : cyc[c].pc # "rejected"
    /\ mainPc = "exited" => ~validateConfig(CONFIG)
    /\ mainPc = "armed" /\ RunningCycles = {} => ENABLED TickAny

C20_Witness ==
    /\ mainPc = "armed"
    /\ cyc[1].pc = "done"
    /\ cyc[1].wrapFetches = 2
    /\ cyc[1].errKind = "nonError"
    /\ cyc[1].pushFate \in TransportErrors
    /\ ENABLED TickAny

----------------------------------------------------------------------------
\* The startup errors: no URL configured, a configured URL that is no
\* absolute URL, no seed cookie, a seed cookie the parser throws on.
StartupError(cfg) ==
    \/ cfg.spaceUrl = EmptyUrl /\ cfg.targetUrl = EmptyUrl
    \/ cfg.spaceUrl # EmptyUrl /\ cfg.spaceUrl.scheme = ""
    \/ cfg.targetUrl # EmptyUrl /\ cfg.targetUrl.scheme = ""
    \/ cfg.cookie = <<>>
    \/ cfg.cookie = NumberCookie

\* Nothing has been requested, seeded or armed.
NothingStarted ==
    /\ mainPc \in {"start", "exited"}
    /\ \A c \in Cycles : cyc[c] = IdleCycle
    /\ DOMAIN cookieStorage = {}

----------------------------------------------------------------------------
\* The monitor is not configured, or its enabled flag is false.
NotifierOff == ~CONFIG.uptimeKuma.configured \/ ~CONFIG.uptimeKuma.enabled

\* What a poll cycle did and how it ended.
Core(r) ==
    [attempts |-> r.attempts, sleeps |-> r.sleeps, outcome |-> r.outcome,
     status |-> r.status, result |-> r.result, pushes |-> r.pushes]

\* How a push can go once the request is out.
PushFates == TransportErrors \cup KumaBodies \cup {"status"}

\* The record r, pushToUptimeKuma just called, with the call made again under
\* the monitor settings uptimeKuma.
CalledUnder(uptimeKuma, r) ==
    LET call == r.pushes[Len(r.pushes)]
    IN pushToUptimeKuma(uptimeKuma, [r EXCEPT !.pushes = SubSeq(@, 1, Len(@) - 1)],
                        call.status, call.msg, call.ping, r.pushSite)

\* Invocation c calls pushToUptimeKuma in this step.
CallsPush(c) == Moved(c) /\ Len(cyc'[c].pushes) = Len(cyc[c].pushes) + 1

\* C22: with the monitor not configured or its enabled flag false, no request
\* to the monitor is ever issued and pushToUptimeKuma returns at once; and at
\* every call of it, the cycle ends with the same attempts and the same
\* terminal outcome with the monitor off as with the monitor on, however the
\* push goes.
C22_DisabledNotifierIsNoOp ==
    /\ [](NotifierOff
          => \A c \in Cycles :
                /\ cyc[c].req.kind # "push"
                /\ cyc[c].pc \notin {"pushReq", "pushBody"}
                /\ cyc[c].pushFate \in {"none", "noop"})
    /\ [][\A c \in Cycles :
            /\ NotifierOff /\ Moved(c) /\ cyc[c].pc = "pushRet"
               => cyc'[c].pc = "done" /\ Core(cyc'[c]) = Core(cyc[c])
            /\ CallsPush(c)
               => LET r == cyc'[c]
                      off == CalledUnder(NoKuma, r)
                  IN /\ r = CalledUnder(CONFIG.uptimeKuma, r)
                     /\ off.pc = "pushRet"
                     /\ CalledUnder(Kuma(KumaUrl, FALSE), r) = off
                     /\ PushSettle(off, "noop").pc = "done"
                     /\ \A fate \in PushFates :
                           LET on == PushSettle(CalledUnder(Kuma(KumaUrl, TRUE), r), fate)
                           IN /\ on.pc = "done"
                              /\ Core(on) = Core(PushSettle(off, "noop"))]_vars

C22_Witness ==
    /\ CONFIG.uptimeKuma = Kuma(KumaUrl, FALSE)
    /\ CONFIG.maxRetries = 2
    /\ cyc[1].pc = "done"
    /\ cyc[1].result = "Exhausted"
    /\ cyc[1].attempts = 2
    /\ cyc[1].pushFate = "noop"

----------------------------------------------------------------------------
\* Invocation c settles the target of its attempt on an absolute URL in this
\* step (the iframe URL or TARGET_URL).
TargetChosen(c) ==
    /\ Moved(c)
    /\ cyc[c].pc \in {"idle", "done", "sleep", "wrapReq", "wrapBody"}
    /\ cyc'[c].pc \notin {"wrapReq", "wrapBody"}
    /\ IsValidUrl(cyc'[c].targetUrl)

\* C23: when the target's host has no jar entry, serializeCookie gives the
\* empty string and no error: the content request is issued all the same,
\* with an empty Cookie header, and the jar is as it was.
C23_NoEntryIsEmptyHeader ==
    [][\A c \in Cycles :
          TargetChosen(c) /\ cyc'[c].targetUrl.host \notin DOMAIN cookieStorage'
          => /\ cyc'[c].pc = "contReq"
             /\ cyc'[c].req = [kind |-> "content", url |-> cyc'[c].targetUrl, cookie |-> {}]
             /\ cyc'[c].outcome = "none"
             /\ mainPc # "start" => cookieStorage' = cookieStorage]_vars

C23_Witness ==
    /\ cyc[1].pc = "contReq"
    /\ cyc[1].attempt = 2
    /\ cyc[1].req = [kind |-> "content", url |-> SignedUrl, cookie |-> {}]
    /\ DOMAIN cookieStorage = {SpacePage.host}

----------------------------------------------------------------------------
\* The pairs of a Cookie header string: for each name, the decoded value of
\* its first name=value pair.
SeedPairs(seed) ==
    LET at(n) == {i \in 1..Len(seed) : Len(seed[i]) = 3 /\ seed[i][2] = "=" /\ seed[i][1] = n}
        names == {seed[i][1] : i \in {j \in 1..Len(seed) : Len(seed[j]) = 3 /\ seed[j][2] = "="}}
    IN [n \in names |-> decode(seed[CHOOSE i \in at(n) : \A j \in at(n) : i <= j][3])]

\* The hosts of the configured URLs.
ConfiguredHosts ==
    {u.host : u \in {CONFIG.spaceUrl, CONFIG.targetUrl} \ {EmptyUrl}}

\* C24: when startup has initialised the cookies, the jar has an entry for
\* each distinct host of the configured Space page URL and TARGET_URL and for
\* no other host, and each entry holds the name-value pairs of the seed
\* cookie string, no more and no less.
C24_JarAfterInit ==
    [][mainPc = "start" /\ mainPc' = "first"
       => /\ DOMAIN cookieStorage' = ConfiguredHosts
          /\ \A h \in ConfiguredHosts : cookieStorage'[h] = SeedPairs(CONFIG.cookie)]_vars

C24_Witness ==
    /\ mainPc = "first"
    /\ cyc[1].pc = "wrapReq"
    /\ cyc[1].attempt = 1
    /\ CONFIG.spaceUrl = SpacePage
    /\ CONFIG.targetUrl = SamePageUrl
    /\ CONFIG.cookie = TwoCookies
    /\ cookieStorage = (SpacePage.host :> (("token" :> "v0") @@ ("sid" :> "a b")))

----------------------------------------------------------------------------
\* The message for a caught error: request timeout, connection failure, any
\* other Error with its message, a thrown value that is no Error.
ErrorMsg(err) ==
    IF err = "timeout" THEN Msg("timeout", 0)
    ELSE IF err = "connect" THEN Msg("connect", 0)
    ELSE IF err = "other" THEN Msg("unknownWithMessage", 0)
    ELSE Msg("unknown", 0)

\* C25: the "down" push of a cycle that ends Exhausted is made in the last
\* attempt (attempt maxRetries) and its message names the failure of that
\* attempt alone: the marker or the unexpected status with the status code of
\* its response, or the kind of the error it caught; nothing of the earlier
\* attempts goes into it.
C25_DownNamesLastFailure ==
    [][\A c \in Cycles :
          cyc'[c].result = "Exhausted" /\ cyc[c].result # "Exhausted"
          => LET r == cyc[c]
                 after == cyc'[c]
             IN /\ after.attempt = CONFIG.maxRetries
                /\ Len(after.pushes) = 1
                /\ after.pushes[1].status = "down"
                /\ after.pushes[1].msg =
                      IF r.pc = "contBody" /\ r.resp.fate = "ok"
                      THEN IF MarkerOccurs(r.resp.body)
                           THEN Msg("marker", r.resp.status)
                           ELSE Msg("status", r.resp.status)
                      ELSE IF r.pc = "contBody" THEN ErrorMsg(r.resp.fate)
                      ELSE IF r.pc = "contReq" THEN ErrorMsg(after.errKind)
                      ELSE Msg("unknownWithMessage", 0)]_vars

C25_Witness ==
    /\ CONFIG.maxRetries = 3
    /\ cyc[1].pc = "done"
    /\ cyc[1].result = "Exhausted"
    /\ cyc[1].attempts = 3
    /\ cyc[1].sleeps = 2
    /\ cyc[1].pushes = << Down(Msg("timeout", 0), NoPing) >>

----------------------------------------------------------------------------
\* The documented minimum of the poll interval, in milliseconds.
IntervalFloor == 10000

\* C26: the period the timer is armed with is never below the floor of
\* 10000 ms, whatever interval the environment or the configuration file
\* gives.
C26_IntervalNeverBelowFloor ==
    mainPc = "armed" => TimerPeriod >= IntervalFloor

----------------------------------------------------------------------------
\* The jar entry of host X holds the value of every directive noted for X.
JarHasDirectives(X) ==
    X \in DOMAIN lastDirective
    => /\ X \in DOMAIN cookieStorage
       /\ \A n \in DOMAIN lastDirective[X] :
             /\ n \in DOMAIN cookieStorage[X]
             /\ cookieStorage[X][n] = decode(lastDirective[X][n])

ClassifiedOutcomes == {"Success", "ContentFailure", "UnexpectedStatus"}

\* Where an attempt stands: resolving, requesting, reading, ended.
C27_AttemptOrderState ==
    \A c \in Cycles :
        LET r == cyc[c]
        IN /\ r.pc \in {"wrapReq", "wrapBody"}
              => /\ ~r.contentIssued
                 /\ r.targetUrl = NullUrl
                 /\ r.outcome = "none"
                 /\ r.pushes = <<>>
           /\ r.pc \in {"contReq", "contBody"}
              => /\ r.contentIssued
                 /\ Truthy(CONFIG.spaceUrl) => r.wrapFetches = r.attempt
                 /\ r.outcome = "none"
                 /\ r.pushes = <<>>
           /\ r.pc = "contBody" => JarHasDirectives(r.targetUrl.host)
           /\ r.outcome \in ClassifiedOutcomes => r.contentIssued
           /\ r.pushes # <<>> => r.outcome # "none" /\ r.pc \in PushPcs \cup {"done"}

\* The steps of an attempt: the content request follows the resolution, the
\* classification reads the body and leaves the jar alone, a push follows an
\* outcome.
C27_AttemptOrderStep ==
    \A c \in Cycles :
        /\ Issues(c) /\ cyc'[c].req.kind = "content" /\ Truthy(CONFIG.spaceUrl)
           => cyc[c].pc \in {"wrapReq", "wrapBody"} /\ cyc[c].wrapFetches = cyc'[c].attempt
        /\ Moved(c) /\ cyc'[c].outcome \in ClassifiedOutcomes /\ cyc[c].outcome = "none"
           => ReadsContent(c) /\ cookieStorage' = cookieStorage
        /\ CallsPush(c) => cyc'[c].outcome # "none"

\* C27: within an attempt the steps come in the order resolve, content
\* request, cookie update, classify, notify: the content request is issued
\* when the attempt's own resolution has ended, the Set-Cookie lines of the
\* content response are in the jar before the response is classified, and a
\* push is made only once the attempt is classified or has failed.
C27_AttemptOrder == []C27_AttemptOrderState /\ [][C27_AttemptOrderStep]_vars

C27_Witness ==
    /\ Truthy(CONFIG.spaceUrl)
    /\ cyc[1].pc = "pushReq"
    /\ cyc[1].attempt = 2
    /\ cyc[1].wrapFetches = 2
    /\ cyc[1].contentIssued
    /\ cyc[1].outcome = "Success"
    /\ cyc[1].targetUrl = SignedUrl
    /\ SignedUrl.host \in DOMAIN lastDirective
    /\ JarHasDirectives(SignedUrl.host)

----------------------------------------------------------------------------
IsElement(token) == token.tag # "#text"

\* The body with its text taken out: no failure marker is left in it.
WithoutText(body) == SelectSeq(body, IsElement)

\* C28: the Space page response is not classified by content: the step that
\* has read its body goes on as it would with all text (the failure markers)
\* taken out of the body, and never records a content failure; and the
\* Set-Cookie lines of the response are in the Space page host's jar entry
\* from the arrival of the headers on, whatever the status code, also when
\* getIframeUrl then returns no URL.
C28_WrapperNotClassified ==
    /\ [](\A c \in Cycles :
             cyc[c].pc = "wrapBody" => JarHasDirectives(CONFIG.spaceUrl.host))
    /\ [][\A c \in Cycles :
            /\ Moved(c) /\ cyc[c].pc = "wrapBody" /\ cyc[c].resp.fate = "ok"
               => LET r == cyc[c]
                      iframeUrl == IF r.resp.status # 200 THEN NullUrl
                                   ELSE extractIframeUrl(WithoutText(r.resp.body))
                  IN /\ cyc'[c] = ChooseTarget(r, iframeUrl, cookieStorage)
                     /\ cyc'[c].outcome \notin ClassifiedOutcomes
                     /\ cookieStorage' = cookieStorage
            /\ WrapperCookieStep(c) /\ lastDirective' # lastDirective
               => LET X == CONFIG.spaceUrl.host
                  IN \A n \in DOMAIN lastDirective'[X] :
                        /\ n \in DOMAIN cookieStorage'[X]
                        /\ cookieStorage'[X][n] = decode(lastDirective'[X][n])]_vars

C28_Witness ==
    /\ mainPc = "first"
    /\ cyc[1].pc = "wrapBody"
    /\ cyc[1].attempt = 1
    /\ cyc[1].resp.status = 404
    /\ cyc[1].resp.fate = "ok"
    /\ MarkerOccurs(cyc[1].resp.body)
    /\ CONFIG.targetUrl = EmptyUrl
    /\ SpacePage.host \in DOMAIN lastDirective
    /\ cookieStorage[SpacePage.host] = ("spaces-jwt" :> "a b") @@ ("token" :> "v0")

----------------------------------------------------------------------------
\* updateCookies runs in this step.
Updates == ~input.applied /\ input'.applied

\* The batch with the lines that give no cookie taken out.
GoodOnly(batch) == [k \in 1..Cardinality(GoodLines(batch)) |->
                      batch[CHOOSE i \in GoodLines(batch) :
                               Cardinality({j \in GoodLines(batch) : j < i}) = k - 1]]

\* No entry and no cookie name leaves the jar in the step.
JarGrows ==
    \A h \in DOMAIN cookieStorage :
        /\ h \in DOMAIN cookieStorage'
        /\ DOMAIN cookieStorage[h] \subseteq DOMAIN cookieStorage'[h]

\* C29 as stated: a batch of directives that have no name or an empty value
\* changes nothing in the jar.
C29_AsStated ==
    [][/\ JarGrows
       /\ Updates /\ GoodLines(input.setCookieHeaders) = {}
          => cookieStorage' = cookieStorage]_vars

\* C29, amended: jar entries only grow: no entry and no cookie name ever
\* leaves the jar; a directive without a name or with an empty value (a
\* deletion) changes no cookie: the jar is what the other directives of the
\* batch make it, and every entry that was there is as before when there are
\* none.  The one change such a batch can make is an empty entry, created for
\* the response's host when it had none.
C29_EntriesOnlyGrow ==
    [][/\ JarGrows
       /\ Updates
          => LET batch == input.setCookieHeaders
             IN /\ cookieStorage' = updateCookies(cookieStorage, input.url, GoodOnly(batch))
                /\ GoodLines(batch) = {}
                   => /\ \A h \in DOMAIN cookieStorage : cookieStorage'[h] = cookieStorage[h]
                      /\ \A h \in DOMAIN cookieStorage' \ DOMAIN cookieStorage :
                            /\ h = extractDomain(input.url)
                            /\ cookieStorage'[h] = EmptyEntry]_vars

C29_Witness ==
    /\ input.applied
    /\ input.url = SpacePage
    /\ input.setCookieHeaders = << <<"spaces-jwt", "=">>, <<"v1">> >>
    /\ SpacePage.host \in DOMAIN cookieStorage
    /\ DOMAIN cookieStorage[SpacePage.host] = {"token", "spaces-jwt", "sid"}
    /\ SpacePage.host \in DOMAIN lastDirective
    /\ DOMAIN lastDirective[SpacePage.host] = {"spaces-jwt", "sid"}
    /\ cookieStorage[SpacePage.host]["spaces-jwt"] = decode(lastDirective[SpacePage.host]["spaces-jwt"])

----------------------------------------------------------------------------
\* What the resolution that ends in the step gives invocation c: the src of
\* the page just read, or TARGET_URL.
ResolvedNow(c) ==
    IF cyc[c].pc = "wrapBody" /\ ~PageGivesNoUrl(cyc[c])
    THEN FirstFrame(cyc[c].resp.body).src
    ELSE CONFIG.targetUrl

\* C30: every attempt resolves its target anew: with a Space page URL
\* configured the page is fetched once in each attempt, and the content
\* request of an attempt goes to the target that attempt has resolved (the
\* src of the page it has just read, else TARGET_URL), whatever an earlier
\* attempt or cycle resolved.
C30_AttemptResolvesAnew ==
    /\ [](\A c \in Cycles :
             /\ Truthy(CONFIG.spaceUrl) => cyc[c].wrapFetches = cyc[c].attempts
             /\ cyc[c].pc \in {"wrapReq", "wrapBody"} => cyc[c].targetUrl = NullUrl)
    /\ [][\A c \in Cycles :
            Issues(c) /\ cyc'[c].req.kind = "content"
            => /\ cyc'[c].req.url = ResolvedNow(c)
               /\ cyc'[c].targetUrl = ResolvedNow(c)
               /\ cyc'[c].attempt = cyc'[c].attempts
               /\ Truthy(CONFIG.spaceUrl)
                  => /\ cyc[c].pc \in {"wrapReq", "wrapBody"}
                     /\ cyc[c].attempt = cyc'[c].attempt]_vars

C30_Witness ==
    /\ CONFIG.targetUrl = DirectUrl
    /\ cyc[1].pc = "contReq"
    /\ cyc[1].attempt = 3
    /\ cyc[1].wrapFetches = 3
    /\ cyc[1].req.url = SignedUrl
    /\ mainPc = "armed"

----------------------------------------------------------------------------
\* The pair a Set-Cookie line puts in the Cookie header.
SentPair(line) == Pair(line[1], encodeURIComponent(decode(line[3])))

\* C31: cookies are scoped by host name alone: URLs of one host name that
\* differ in scheme, port, path or query read the same jar entry and write
\* the same jar entry (a directive received for one is in the Cookie header
\* of every other), and a directive received for a URL changes nothing of
\* what a URL of another host name reads.
C31_ScopedByHostname ==
    /\ [](\A u1, u2 \in ScopeUrls :
             u1.host = u2.host
             => serializeCookie(cookieStorage, u1) = serializeCookie(cookieStorage, u2))
    /\ [][Updates
          => \A u \in ScopeUrls :
                IF u.host = input.url.host
                THEN SentPair(input.setCookieHeaders[1]) \in serializeCookie(cookieStorage', u)
                ELSE serializeCookie(cookieStorage', u) = serializeCookie(cookieStorage, u)]_vars

C31_Witness ==
    /\ input.applied
    /\ input.url = PortSpacePage
    /\ input.setCookieHeaders = << Pair("spaces-jwt", "a%20b") >>
    /\ CONFIG.targetUrl = DirectUrl
    /\ Pair("spaces-jwt", "a%20b") \in serializeCookie(cookieStorage, HttpSpacePage)
    /\ Pair("spaces-jwt", "a%20b") \in serializeCookie(cookieStorage, QuerySpacePage)
    /\ serializeCookie(cookieStorage, DirectUrl) = {Pair("token", "v0")}

----------------------------------------------------------------------------
\* C32: in every configuration that passes validateConfig, a poll cycle that
\* has ended has called pushToUptimeKuma exactly once: not zero times, not
\* twice.
C32_OnePushPerCycle ==
    \A c \in Cycles :
        cyc[c].pc = "done" => Len(cyc[c].pushes) = 1

----------------------------------------------------------------------------
TerminalResults == {"Succeeded", "Exhausted", "NoTarget"}

\* C33: a poll cycle ends in a terminal state (Succeeded, Exhausted or no
\* target) after at most maxRetries attempts: the attempt number starts at 1,
\* grows by one per retry and never exceeds maxRetries, and a cycle that has
\* ended is in one of the three terminal states.
C33_EndsWithinMaxRetries ==
    \A c \in Cycles :
        /\ cyc[c].attempts <= CONFIG.maxRetries
        /\ cyc[c].attempt <= CONFIG.maxRetries
        /\ cyc[c].pc # "idle"
           => cyc[c].attempt = cyc[c].sleeps + (IF cyc[c].pc = "sleep" THEN 0 ELSE 1)
        /\ cyc[c].pc = "done" => cyc[c].result \in TerminalResults

\* The part of it that holds: every cycle comes to its end, the attempts
\* counting up by one from 1, no more of them than maxRetries.
CycleEnds ==
    /\ \A c \in Cycles : (cyc[c].pc \notin {"idle", "done"}) ~> (cyc[c].pc = "done")
    /\ [](\A c \in Cycles :
             /\ cyc[c].attempts <= CONFIG.maxRetries
             /\ cyc[c].pc # "idle"
                => cyc[c].attempt = cyc[c].sleeps + (IF cyc[c].pc = "sleep" THEN 0 ELSE 1))

----------------------------------------------------------------------------
\* The Cookie header holds every directive noted for the host of url.
HeaderHasDirectives(cookie, url) ==
    url.host \in DOMAIN lastDirective
    => \A n \in DOMAIN lastDirective[url.host] :
          Pair(n, encodeURIComponent(decode(lastDirective[url.host][n]))) \in cookie

\* C34: the Set-Cookie lines of a content response are in the jar once its
\* headers have arrived and stay there whatever becomes of the attempt
\* (failure marker, unexpected status, a body that cannot be read): the step
\* that ends the attempt leaves the jar alone, and the content request of
\* the next attempt carries them.
C34_CookiesSurviveFailure ==
    /\ [](\A c \in Cycles :
             LET r == cyc[c]
             IN /\ r.pc = "contBody" => JarHasDirectives(r.targetUrl.host)
                /\ r.contentIssued /\ r.outcome \in RetryableOutcomes
                   => JarHasDirectives(r.targetUrl.host)
                /\ r.pc = "contReq"
                   => /\ r.req.cookie = serializeCookie(cookieStorage, r.req.url)
                      /\ HeaderHasDirectives(r.req.cookie, r.req.url))
    /\ [][\A c \in Cycles :
             Moved(c) /\ cyc[c].pc = "contBody" /\ cyc'[c].outcome \in RetryableOutcomes
             => cookieStorage' = cookieStorage]_vars

C34_Witness ==
    /\ mainPc = "first"
    /\ CONFIG.spaceUrl = EmptyUrl
    /\ CONFIG.targetUrl = DirectUrl
    /\ cyc[1].pc = "contReq"
    /\ cyc[1].attempt = 2
    /\ cyc[1].req.url = DirectUrl
    /\ cyc[1].req.cookie = {Pair("token", "v0"), Pair("spaces-jwt", "a%20b")}

----------------------------------------------------------------------------
\* The hosts the jar has no seed for.
UnseededHosts == {ForeignUrl.host, SignedUrl.host} \ ConfiguredHosts

\* The directives noted for host h, as the pairs of a Cookie header.
NotedPairs(h) ==
    IF h \in DOMAIN lastDirective
    THEN {Pair(n, encodeURIComponent(decode(lastDirective[h][n]))) : n \in DOMAIN lastDirective[h]}
    ELSE {}

\* The seed cookies stay on the hosts of the configured URLs: the entry of
\* another host holds what that host has set and nothing else, and a content
\* request to it carries just that: nothing before its first valid
\* directive.
SeedsStayHome ==
    /\ \A h \in UnseededHosts :
          /\ h \in DOMAIN cookieStorage
             => stringifyCookie(cookieStorage[h]) = NotedPairs(h)
          /\ h \in DOMAIN lastDirective => h \in DOMAIN cookieStorage
    /\ \A c \in Cycles :
          cyc[c].pc = "contReq" /\ cyc[c].req.url.host \in UnseededHosts
          => cyc[c].req.cookie = NotedPairs(cyc[c].req.url.host)

\* C35 as stated: moreover the jar entry of such a host exists only once a
\* valid directive of that host has been received.
C35_AsStated ==
    /\ SeedsStayHome
    /\ \A h \in UnseededHosts : h \in DOMAIN cookieStorage => h \in DOMAIN lastDirective

\* C35, amended: the seed cookies reach only the hosts of the configured
\* URLs: a content request to another host carries an empty Cookie header
\* until that host has sent a valid directive, and then the cookies that host
\* has set and no seed.  The jar entry of such a host is created by the first
\* content response of that host that has a Set-Cookie line, valid or not:
\* it is empty until a valid directive arrives.
C35_SeedsOnConfiguredHostsOnly ==
    /\ []SeedsStayHome
    /\ [][\A h \in UnseededHosts :
             h \notin DOMAIN cookieStorage /\ h \in DOMAIN cookieStorage'
             => /\ \E c \in Cycles : ContentCookieStep(c) /\ cyc[c].targetUrl.host = h
                /\ h \notin DOMAIN lastDirective' => cookieStorage'[h] = EmptyEntry]_vars

C35_Witness ==
    /\ CONFIG.targetUrl = DirectUrl
    /\ CONFIG.cookie = TwoCookies
    /\ cyc[1].pc = "contReq"
    /\ cyc[1].attempt = 2
    /\ cyc[1].req.url = ForeignUrl
    /\ cyc[1].req.cookie = {}
    /\ ForeignUrl.host \in DOMAIN cookieStorage
    /\ cookieStorage[ForeignUrl.host] = EmptyEntry
    /\ ForeignUrl.host \notin DOMAIN lastDirective
    /\ DirectUrl.host \in DOMAIN cookieStorage
    /\ DOMAIN cookieStorage[DirectUrl.host] = {"token", "sid"}

----------------------------------------------------------------------------
\* Invocation c leaves getIframeUrl in this step, the body of the Space page
\* read or not.
LeavesResolver(c) ==
    Moved(c) /\ cyc[c].pc = "wrapBody" /\ cyc[c].resp.fate # "pending"

\* The step goes on without a URL from the Space page: to TARGET_URL when
\* there is one, to the "down" of no target otherwise.
FallsBack(c) ==
    IF Truthy(CONFIG.targetUrl)
    THEN /\ cyc'[c].pc = "contReq"
         /\ cyc'[c].targetUrl = CONFIG.targetUrl
         /\ cyc'[c].req.url = CONFIG.targetUrl
    ELSE /\ cyc'[c].outcome = "NoTarget"
         /\ cyc'[c].targetUrl = NullUrl
         /\ ~cyc'[c].contentIssued
         /\ Len(cyc'[c].pushes) = 1
         /\ cyc'[c].pushes[1].status = "down"

\* C36: the Space page counts as fetched for status 200 alone, whatever
\* expectedStatusCodes holds: a response with another status, one of
\* expectedStatusCodes included, gives no URL and the attempt falls back,
\* and a 200 whose body has the iframe gives its src.
C36_WrapperNeeds200 ==
    [][\A c \in Cycles :
          LeavesResolver(c)
          => /\ cyc[c].resp.status # 200 => FallsBack(c)
             /\ cyc[c].resp.status = 200 /\ ~PageGivesNoUrl(cyc[c])
                => cyc'[c].targetUrl = FirstFrame(cyc[c].resp.body).src]_vars

C36_Witness ==
    /\ 404 \in CONFIG.expectedStatusCodes
    /\ CONFIG.targetUrl = DirectUrl
    /\ cyc[1].pc = "wrapBody"
    /\ cyc[1].resp.status = 404
    /\ cyc[1].resp.fate = "ok"
    /\ cyc[1].resp.body = << Element("iframe", "space-iframe", TRUE, SignedUrl) >>
    /\ ENABLED (WrapperBody(1) /\ cyc'[1].req.url = DirectUrl)

----------------------------------------------------------------------------
\* The request for the Space page, or the reading of its body, fails in this
\* step of invocation c.
WrapperFails(c) ==
    /\ Moved(c)
    /\ \/ cyc[c].pc = "wrapReq" /\ cyc'[c].pc # "wrapBody"
       \/ cyc[c].pc = "wrapBody" /\ cyc[c].resp.fate \in TransportErrors

\* C37: a transport error while the Space page is fetched is no failure of
\* the attempt: nothing is caught by keepAlive, no retry delay starts and no
\* attempt is added; the same attempt requests TARGET_URL when one is
\* configured, and otherwise the cycle ends there with the "down" of no
\* target.
C37_WrapperErrorAbsorbed ==
    [][\A c \in Cycles :
          WrapperFails(c)
          => /\ cyc'[c].outcome # "TransportError"
             /\ cyc'[c].errKind = "none"
             /\ cyc'[c].pc # "sleep"
             /\ cyc'[c].sleeps = cyc[c].sleeps
             /\ cyc'[c].attempt = cyc[c].attempt
             /\ cyc'[c].attempts = cyc[c].attempts
             /\ FallsBack(c)
             /\ ~Truthy(CONFIG.targetUrl)
                => cyc'[c].result = "NoTarget" /\ cyc'[c].pc \in PushPcs]_vars

C37_Witness ==
    /\ CONFIG.targetUrl = EmptyUrl
    /\ CONFIG.maxRetries = 3
    /\ cyc[1].pc = "wrapBody"
    /\ cyc[1].attempt = 1
    /\ cyc[1].resp.fate = "timeout"
    /\ ENABLED (/\ WrapperBody(1)
                /\ cyc'[1].result = "NoTarget"
                /\ cyc'[1].attempts = 1
                /\ cyc'[1].pushes[1].status = "down")

----------------------------------------------------------------------------
\* The jar entry of every host is whole: it holds every directive of every
\* batch applied so far, none of them in part.
JarWhole == \A h \in DOMAIN lastDirective : JarHasDirectives(h)

\* C38: the Set-Cookie lines of a response are applied to the jar as one
\* step with respect to the other poll cycles: in every state an invocation
\* can run in, the jar holds whole batches, and every Cookie header an
\* invocation serializes is that of the jar of that moment, with all the
\* directives of every batch received for its host.
C38_BatchesApplyAtomically ==
    /\ []JarWhole
    /\ [][\A c \in Cycles :
             Issues(c)
             => /\ cyc'[c].req.cookie = serializeCookie(cookieStorage', cyc'[c].req.url)
                /\ LET h == cyc'[c].req.url.host
                   IN h \in DOMAIN lastDirective'
                      => \A n \in DOMAIN lastDirective'[h] :
                            Pair(n, encodeURIComponent(decode(lastDirective'[h][n])))
                               \in cyc'[c].req.cookie]_vars

C38_Witness ==
    /\ cyc[1].pc = "contBody"
    /\ cyc[2].pc = "contReq"
    /\ cyc[2].req.url = DirectUrl
    /\ cyc[2].req.cookie = {Pair("token", "v0"), Pair("spaces-jwt", "a%20b"), Pair("sid", "a%20b")}
    /\ DirectUrl.host \in DOMAIN cookieStorage
    /\ cookieStorage[DirectUrl.host] = ("spaces-jwt" :> "v1") @@ ("sid" :> "v1") @@ ("token" :> "v0")

====
